---- MODULE Spec2Model ----
(***************************************************************************)
(* A model of the lrama language server's analysis core: the scanner       *)
(* (LramaParser.tokenize), the section-aware parser (parseGrammar and its  *)
(* sub-parsers) and the symbol table (SymbolTable).  One analysis pass is  *)
(* parse(text): tokenize, parseGrammar, validateSymbols.                   *)
(*                                                                         *)
(* Text, lines and token values are sequences of one-character strings.   *)
(* Lines, columns and token indices are 0-based as in the source; At and   *)
(* Substr do the 0-based access into the 1-based TLA+ sequences.           *)
(***************************************************************************)
EXTENDS Integers, Sequences, FiniteSets, TLC

VARIABLES
  text,                \* parse(text): the document text
  lines,               \* this.lines / tokenize's lines = text.split("\n")
  lineNum,             \* tokenize: the outer loop's line counter
  tokens,              \* this.tokens
  currentTokenIndex,   \* this.currentTokenIndex
  section,             \* parseGrammar's local `section`
  pc,                  \* the loop of the pass that runs next
  frame,               \* the locals of the sub-parser loops that are active
  symbols,             \* SymbolTable.symbols (a Map: insertion order kept)
  parameterizedRules,  \* SymbolTable.parameterizedRules (a Map)
  calls,               \* history: the SymbolTable calls of the pass, in order
  diagnostics,         \* this.diagnostics
  previous,            \* history: what the parser's previous pass returned
  position,            \* the position of the last lookup (<<>> for none)
  found,               \* what the last lookup returned (<<>> for undefined)
  startSymbol,         \* SymbolTable.startSymbol (<<>> for undefined)
  uri,                 \* validateTextDocument: textDocument.uri (<<>>: none)
  symbolTables,        \* the server's symbolTables (a Map from uri)
  sent,                \* per uri, the diagnostics of the last sendDiagnostics
  changes,             \* history: per uri, its last two texts, newest first
  request,             \* history: the references requests, newest first
  answer               \* what onReferences returned for the newest

\* the server's state
serverVars == << uri, symbolTables, sent, changes, request, answer >>

vars == << text, lines, lineNum, tokens, currentTokenIndex, section, pc,
           frame, symbols, parameterizedRules, calls, diagnostics, previous,
           position, found, startSymbol, uri, symbolTables, sent, changes,
           request, answer >>

----------------------------------------------------------------------------
(* Strings as character sequences *)

Min(a, b) == IF a <= b THEN a ELSE b
Max(a, b) == IF a >= b THEN a ELSE b

\* s[i] of the source, 0-based; "" stands for undefined (out of range)
At(s, i) == IF i >= 0 /\ i < Len(s) THEN s[i + 1] ELSE ""

\* s.substr(start, n)
Substr(s, start, n) == SubSeq(s, start + 1, Min(start + n, Len(s)))

\* s.substr(start) / s.substring(start)
From(s, start) == SubSeq(s, start + 1, Len(s))

\* s.startsWith(p)
StartsWith(s, p) == Len(p) <= Len(s) /\ SubSeq(s, 1, Len(p)) = p

\* s.indexOf(pat, from): the least 0-based index >= from where pat occurs, or -1
IndexOf(s, pat, from) ==
  LET f == Min(Max(from, 0), Len(s))
      hits == { i \in f .. (Len(s) - Len(pat)) : SubSeq(s, i + 1, i + Len(pat)) = pat }
  IN IF hits = {} THEN -1 ELSE CHOOSE i \in hits : \A j \in hits : i <= j

\* text.split("\n")
RECURSIVE Split(_)
Split(s) ==
  LET nl == IndexOf(s, <<"\n">>, 0)
  IN IF nl = -1 THEN << s >>
     ELSE << SubSeq(s, 1, nl) >> \o Split(From(s, nl + 1))

Lower == {"a", "b", "c", "d", "e", "f", "g", "h", "i", "j", "k", "l", "m",
          "n", "o", "p", "q", "r", "s", "t", "u", "v", "w", "x", "y", "z"}
Upper == {"A", "B", "C", "D", "E", "F", "G", "H", "I", "J", "K", "L", "M",
          "N", "O", "P", "Q", "R", "S", "T", "U", "V", "W", "X", "Y", "Z"}
Digit == {"0", "1", "2", "3", "4", "5", "6", "7", "8", "9"}

\* /\s/
IsSpace(c) == c \in {" ", "\t", "\r", "\f"}
\* [a-zA-Z_]
IsIdentStart(c) == c \in Lower \cup Upper \cup {"_"}
\* [a-zA-Z0-9_\-]
IsIdentPart(c) == c \in Lower \cup Upper \cup Digit \cup {"_", "-"}
\* ":;|()[]{},.?*+".includes(c)
IsSpecialChar(c) ==
  c \in {":", ";", "|", "(", ")", "[", "]", "{", "}", ",", ".", "?", "*", "+"}

----------------------------------------------------------------------------
(* The scanner: LramaParser.tokenize *)

\* the alternatives of the directive pattern, in the order the pattern lists them
DirectiveSpellings ==
  << <<"r", "u", "l", "e">>,
     <<"i", "n", "l", "i", "n", "e">>,
     <<"t", "o", "k", "e", "n">>,
     <<"t", "y", "p", "e">>,
     <<"n", "t", "e", "r", "m">>,
     <<"s", "t", "a", "r", "t">>,
     <<"u", "n", "i", "o", "n">>,
     <<"l", "e", "f", "t">>,
     <<"r", "i", "g", "h", "t">>,
     <<"n", "o", "n", "a", "s", "s", "o", "c">>,
     <<"p", "r", "e", "c", "e", "d", "e", "n", "c", "e">>,
     <<"p", "r", "e", "c">>,
     <<"e", "m", "p", "t", "y">>,
     <<"d", "e", "s", "t", "r", "u", "c", "t", "o", "r">>,
     <<"p", "r", "i", "n", "t", "e", "r">>,
     <<"l", "o", "c", "a", "t", "i", "o", "n", "s">>,
     <<"n", "o", "-", "s", "t", "d", "l", "i", "b">>,
     <<"d", "e", "f", "i", "n", "e">>,
     <<"a", "f", "t", "e", "r", "-", "s", "h", "i", "f", "t">>,
     <<"b", "e", "f", "o", "r", "e", "-", "r", "e", "d", "u", "c", "e">>,
     <<"a", "f", "t", "e", "r", "-", "r", "e", "d", "u", "c", "e">>,
     <<"a", "f", "t", "e", "r", "-", "s", "h", "i", "f", "t", "-", "e", "r",
       "r", "o", "r", "-", "t", "o", "k", "e", "n">>,
     <<"a", "f", "t", "e", "r", "-", "p", "o", "p", "-", "s", "t", "a", "c", "k">>,
     <<"d", "e", "b", "u", "g">>,
     <<"e", "r", "r", "o", "r", "-", "v", "e", "r", "b", "o", "s", "e">> >>

Token(type, value, line, column, length) ==
  [type |-> type, value |-> value, line |-> line, column |-> column,
   length |-> length]

\* line.substr(column).match(/^%(rule|inline|...)/): the text matched, <<>> for
\* no match.  An alternation takes the first alternative, in the order
\* written, that matches at the position.
DirectiveMatch(rest) ==
  LET hits == { i \in 1 .. Len(DirectiveSpellings) :
                  StartsWith(From(rest, 1), DirectiveSpellings[i]) }
  IN IF At(rest, 0) # "%" \/ hits = {} THEN <<>>
     ELSE LET first == CHOOSE i \in hits : \A j \in hits : i <= j
          IN <<"%">> \o DirectiveSpellings[first]

\* line.substr(column).match(/^[a-zA-Z_][a-zA-Z0-9_\-]*/): the text matched
RECURSIVE IdentRun(_, _)
IdentRun(rest, n) ==
  IF n < Len(rest) /\ IsIdentPart(At(rest, n)) THEN IdentRun(rest, n + 1) ELSE n

IdentMatch(rest) ==
  IF IsIdentStart(At(rest, 0)) THEN Substr(rest, 0, IdentRun(rest, 1)) ELSE <<>>

\* the quote-closing loop of the string and character rules: the first index
\* after column holding the quote with no backslash right before it, or
\* line.length
EndQuote(line, column, quote) ==
  LET ends == { e \in (column + 1) .. (Len(line) - 1) :
                  At(line, e) = quote /\ At(line, e - 1) # "\\" }
  IN IF ends = {} THEN Len(line) ELSE CHOOSE e \in ends : \A k \in ends : e <= k

\* text.indexOf("*/", text.indexOf(line) + column + 2)
EndComment(txt, line, column) ==
  IndexOf(txt, <<"*", "/">>, IndexOf(txt, line, 0) + column + 2)

\* TypeTagToken with the length counted without the closing '>'
TypeTagTokenShort(line, ln, column, endTag) ==
  Token("TYPE_TAG", SubSeq(line, column + 2, endTag), ln, column,
        endTag - column)

\* the TYPE_TAG token pushed for '<' at column and '>' at endTag: its value is
\* line.substring(column + 1, endTag), its length endTag - column + 1
TypeTagToken(line, ln, column, endTag) ==
  Token("TYPE_TAG", SubSeq(line, column + 2, endTag), ln, column,
        endTag - column + 1)

\* One iteration of tokenize's inner while loop at `column` of `line`:
\* stop is the loop's break, next the column after the iteration, tok the
\* tokens pushed (none or one).
ScanAt(txt, line, ln, column) ==
  LET c    == At(line, column)
      two  == Substr(line, column, 2)
      rest == From(line, column)
      go(tok, next) == [stop |-> FALSE, tok |-> tok, next |-> next]
      brk == [stop |-> TRUE, tok |-> <<>>, next |-> column]
      dm == DirectiveMatch(rest)
      im == IdentMatch(rest)
      endDq == EndQuote(line, column, "\"")
      endSq == EndQuote(line, column, "'")
      endTag == IndexOf(line, <<">">>, column + 1)
      localEnd == IndexOf(line, <<"*", "/">>, column + 2)
  IN
  IF IsSpace(c) THEN go(<<>>, column + 1)
  ELSE IF two = <<"/", "/">> THEN brk
  ELSE IF two = <<"/", "*">> /\ EndComment(txt, line, column) # -1 THEN
    IF localEnd # -1 THEN go(<<>>, localEnd + 2) ELSE brk
  ELSE IF two = <<"%", "%">> THEN
    go(<< Token("SEPARATOR", two, ln, column, 2) >>, column + 2)
  ELSE IF two = <<"%", "{">> THEN
    go(<< Token("PROLOGUE_START", two, ln, column, 2) >>, column + 2)
  ELSE IF two = <<"%", "}">> THEN
    go(<< Token("PROLOGUE_END", two, ln, column, 2) >>, column + 2)
  ELSE IF c = "%" /\ dm # <<>> THEN
    go(<< Token("DIRECTIVE", dm, ln, column, Len(dm)) >>, column + Len(dm))
  ELSE IF im # <<>> THEN
    go(<< Token("IDENTIFIER", im, ln, column, Len(im)) >>, column + Len(im))
  ELSE IF c = "\"" /\ endDq < Len(line) THEN
    go(<< Token("STRING", SubSeq(line, column + 1, endDq + 1), ln, column,
                endDq + 1 - column) >>, endDq + 1)
  ELSE IF c = "'" /\ endSq < Len(line) THEN
    go(<< Token("CHARACTER", SubSeq(line, column + 1, endSq + 1), ln, column,
                endSq + 1 - column) >>, endSq + 1)
  ELSE IF c = "<" /\ endTag # -1 THEN
    go(<< TypeTagToken(line, ln, column, endTag) >>, endTag + 1)
  ELSE IF IsSpecialChar(c) THEN
    go(<< Token("SPECIAL", << c >>, ln, column, 1) >>, column + 1)
  ELSE go(<<>>, column + 1)

\* tokenize's inner while loop over one line, from `column` on
RECURSIVE ScanLine(_, _, _, _)
ScanLine(txt, line, ln, column) ==
  IF column >= Len(line) THEN <<>>
  ELSE LET r == ScanAt(txt, line, ln, column)
       IN IF r.stop THEN <<>>
          ELSE r.tok \o ScanLine(txt, line, ln, r.next)

\* the columns at which the iterations of that loop start
RECURSIVE ScanColumns(_, _, _, _)
ScanColumns(txt, line, ln, column) ==
  IF column >= Len(line) THEN {}
  ELSE LET r == ScanAt(txt, line, ln, column)
       IN IF r.stop THEN {column}
          ELSE {column} \cup ScanColumns(txt, line, ln, r.next)

----------------------------------------------------------------------------
(* The symbol table: SymbolTable.  A Map is a sequence of entries in       *)
(* insertion order; an optional field is <<>> (absent) or << value >>.     *)

SymbolType ==
  [Token |-> "token", Type |-> "type", Rule |-> "rule",
   Nonterminal |-> "nonterminal", ParameterizedRule |-> "parameterized_rule",
   Union |-> "union", Start |-> "start"]

\* map.get(name): the entry's index, 0 for undefined
IndexOfName(map, name) ==
  IF \E i \in 1 .. Len(map) : map[i].name = name
  THEN CHOOSE i \in 1 .. Len(map) : map[i].name = name
  ELSE 0

Has(map, name) == IndexOfName(map, name) # 0
Get(map, name) == map[IndexOfName(map, name)]

\* a Symbol object literal; the fields a literal leaves out are absent
Symbol(name, type, definition, references, pcalls, parameters, isParameterized) ==
  [name |-> name, type |-> type, definition |-> definition,
   references |-> references, parameterizedCalls |-> pcalls,
   parameters |-> parameters, typeTag |-> <<>>,
   isParameterized |-> isParameterized]

\* addSymbol that completes a forward reference by storing a fresh entry
\* in its place instead of attaching the definition to the entry
AddSymbolReplacing(map, name, type, definition) ==
  LET i == IndexOfName(map, name)
  IN IF i = 0
     THEN Append(map, Symbol(name, type, definition, <<>>, <<>>, <<>>, FALSE))
     ELSE IF definition # <<>> /\ map[i].definition = <<>>
     THEN [map EXCEPT ![i] = Symbol(name, type, definition, <<>>, <<>>, <<>>, FALSE)]
     ELSE map

\* addSymbol that lets the last definition win
AddSymbolLastWins(map, name, type, definition) ==
  LET i == IndexOfName(map, name)
  IN IF i = 0
     THEN Append(map, Symbol(name, type, definition, <<>>, <<>>, <<>>, FALSE))
     ELSE IF definition # <<>>
     THEN [map EXCEPT ![i].definition = definition, ![i].type = type]
     ELSE map

\* SymbolTable.addSymbol(name, type, definition) on this.symbols
AddSymbol(map, name, type, definition) ==
  LET i == IndexOfName(map, name)
  IN IF i = 0
     THEN Append(map, Symbol(name, type, definition, <<>>, <<>>, <<>>, FALSE))
     ELSE IF definition # <<>> /\ map[i].definition = <<>>
     THEN [map EXCEPT ![i].definition = definition, ![i].type = type]
     ELSE map

\* a definition that stores a fresh entry in place of the placeholder
AddParameterizedRuleDefinitionReplacing(map, baseName, definition, parameters) ==
  LET i == IndexOfName(map, baseName)
      fresh == Symbol(baseName, SymbolType.ParameterizedRule,
                      << definition >>, <<>>, <<>>, << parameters >>, TRUE)
  IN IF i = 0 THEN Append(map, fresh) ELSE [map EXCEPT ![i] = fresh]

\* SymbolTable.addParameterizedRuleDefinition(baseName, definition, parameters)
\* on this.parameterizedRules
AddParameterizedRuleDefinition(map, baseName, definition, parameters) ==
  LET i == IndexOfName(map, baseName)
  IN IF i = 0
     THEN Append(map, Symbol(baseName, SymbolType.ParameterizedRule,
                             << definition >>, <<>>, <<>>, << parameters >>, TRUE))
     ELSE [map EXCEPT ![i].definition = << definition >>,
                      ![i].type = SymbolType.ParameterizedRule,
                      ![i].parameters = << parameters >>,
                      ![i].isParameterized = TRUE]

\* a reference that takes the place of the references already recorded
AddReferenceReplacing(map, name, reference) ==
  LET i == IndexOfName(map, name)
  IN IF i # 0
     THEN [map EXCEPT ![i].references = << reference >>]
     ELSE Append(map, Symbol(name, SymbolType.Nonterminal, <<>>,
                             << reference >>, <<>>, <<>>, FALSE))

\* SymbolTable.addReference(name, reference) on this.symbols
AddReference(map, name, reference) ==
  LET i == IndexOfName(map, name)
  IN IF i # 0
     THEN [map EXCEPT ![i].references = Append(@, reference)]
     ELSE Append(map, Symbol(name, SymbolType.Nonterminal, <<>>,
                             << reference >>, <<>>, <<>>, FALSE))

\* SymbolTable.addParameterizedCall(baseName, call) on this.parameterizedRules
AddParameterizedCall(map, baseName, call) ==
  LET i == IndexOfName(map, baseName)
  IN IF i # 0
     THEN [map EXCEPT ![i].parameterizedCalls = Append(@, call)]
     ELSE Append(map, Symbol(baseName, SymbolType.ParameterizedRule, <<>>,
                             <<>>, << call >>, <<>>, TRUE))

\* symbol.typeTag = tag on the Symbol an add... call returned
SetTypeTag(map, name, tag) ==
  [map EXCEPT ![IndexOfName(map, name)].typeTag = << tag >>]

\* LramaParser.createRange(token)
CreateRange(token) ==
  [start |-> [line |-> token.line, character |-> token.column],
   end   |-> [line |-> token.line, character |-> token.column + token.length]]

\* the { range, nameRange } literal the parser passes as a definition
Definition(token) ==
  [range |-> CreateRange(token), nameRange |-> CreateRange(token)]

----------------------------------------------------------------------------
(* The parser: parseGrammar and its sub-parsers.  The cursor moves one loop *)
(* iteration per step: pc names the loop whose iteration runs next, frame   *)
(* holds the locals of the active sub-parser calls, and a step is one       *)
(* iteration together with the straight-line code that follows it up to the *)
(* next loop iteration.                                                     *)

D_token      == <<"%", "t", "o", "k", "e", "n">>
D_type       == <<"%", "t", "y", "p", "e">>
D_nterm      == <<"%", "n", "t", "e", "r", "m">>
D_rule       == <<"%", "r", "u", "l", "e">>
D_start      == <<"%", "s", "t", "a", "r", "t">>
D_union      == <<"%", "u", "n", "i", "o", "n">>
D_left       == <<"%", "l", "e", "f", "t">>
D_right      == <<"%", "r", "i", "g", "h", "t">>
D_nonassoc   == <<"%", "n", "o", "n", "a", "s", "s", "o", "c">>
D_precedence == <<"%", "p", "r", "e", "c", "e", "d", "e", "n", "c", "e">>
D_destructor == <<"%", "d", "e", "s", "t", "r", "u", "c", "t", "o", "r">>
D_printer    == <<"%", "p", "r", "i", "n", "t", "e", "r">>
D_inline     == <<"%", "i", "n", "l", "i", "n", "e">>
D_prec       == <<"%", "p", "r", "e", "c">>
D_empty      == <<"%", "e", "m", "p", "t", "y">>

\* the locals of the sub-parsers: body is the rule-body loop that is active
\* ("" for none), params its in-scope parameters (or the list a %rule
\* declaration is reading), name the %rule's nameToken, depth a braceDepth or
\* parenDepth, args and call the argument names and the name token of the call
\* being read, after what follows a named reference, typeTag a declaration's
\* type tag, line skipToEndOfLine's currentLine
NoFrame ==
  [body |-> "", params |-> <<>>, name |-> <<>>, depth |-> 0, args |-> <<>>,
   call |-> <<>>, after |-> "", typeTag |-> <<>>, line |-> -1]

\* the parser's state as one value
State ==
  [idx |-> currentTokenIndex, section |-> section, pc |-> pc, frame |-> frame,
   symbols |-> symbols, parameterizedRules |-> parameterizedRules,
   calls |-> calls]

Tok(i) == tokens[i + 1]
IsType(i, type) == i < Len(tokens) /\ Tok(i).type = type
IsSpecial(i, ch) == IsType(i, "SPECIAL") /\ Tok(i).value = << ch >>
IsDirective(i, d) == IsType(i, "DIRECTIVE") /\ Tok(i).value = d

\* this.currentTokenIndex++
Advance(s) == [s EXCEPT !.idx = @ + 1]

\* return to parseGrammar's loop
Return(s) == [s EXCEPT !.pc = "parseGrammar", !.frame = NoFrame]

\* LramaParser.isEndOfDeclaration(token)
IsEndOfDeclaration(token) ==
  token.type \in {"DIRECTIVE", "SEPARATOR", "PROLOGUE_START"}

\* this.symbolTable.addSymbol(token.value, type, {range, nameRange})
DefineSymbol(s, token, type) ==
  [s EXCEPT !.symbols = AddSymbol(@, token.value, type, << Definition(token) >>),
            !.calls = Append(@, [op |-> "addSymbol", name |-> token.value,
                                 type |-> type, range |-> CreateRange(token),
                                 body |-> s.frame.body, scope |-> s.frame.params])]

\* a reference that is recorded twice
ReferenceTwice(s, token) ==
  [s EXCEPT !.symbols = AddReference(AddReference(@, token.value,
                                                  [range |-> CreateRange(token)]),
                                     token.value, [range |-> CreateRange(token)]),
            !.calls = Append(@, [op |-> "addReference", name |-> token.value,
                                 type |-> "", range |-> CreateRange(token),
                                 body |-> s.frame.body, scope |-> s.frame.params])]

\* this.symbolTable.addReference(token.value, { range })
Reference(s, token) ==
  [s EXCEPT !.symbols = AddReference(@, token.value, [range |-> CreateRange(token)]),
            !.calls = Append(@, [op |-> "addReference", name |-> token.value,
                                 type |-> "", range |-> CreateRange(token),
                                 body |-> s.frame.body, scope |-> s.frame.params])]

\* a parameterized definition that also creates the plain entry of the name
DefineParameterizedInBoth(s, token, params) ==
  [s EXCEPT !.parameterizedRules =
              AddParameterizedRuleDefinition(@, token.value, Definition(token), params),
            !.symbols = AddSymbol(@, token.value, SymbolType.Rule, <<>>),
            !.calls = Append(@, [op |-> "addParameterizedRuleDefinition",
                                 name |-> token.value, type |-> "",
                                 range |-> CreateRange(token),
                                 body |-> s.frame.body, scope |-> s.frame.params])]

\* this.symbolTable.addParameterizedRuleDefinition(baseName, {...}, params)
DefineParameterized(s, token, params) ==
  [s EXCEPT !.parameterizedRules =
              AddParameterizedRuleDefinition(@, token.value, Definition(token), params),
            !.calls = Append(@, [op |-> "addParameterizedRuleDefinition",
                                 name |-> token.value, type |-> "",
                                 range |-> CreateRange(token),
                                 body |-> s.frame.body, scope |-> s.frame.params])]

\* a call recorded on the entry of the plain map
CallPlain(s, token, args) ==
  [s EXCEPT !.symbols =
              AddParameterizedCall(@, token.value,
                                   [range |-> CreateRange(token), arguments |-> args]),
            !.calls = Append(@, [op |-> "addParameterizedCall",
                                 name |-> token.value, type |-> "",
                                 range |-> CreateRange(token),
                                 body |-> s.frame.body, scope |-> s.frame.params])]

\* this.symbolTable.addParameterizedCall(token.value, {range: callRange, arguments})
Call(s, token, args) ==
  [s EXCEPT !.parameterizedRules =
              AddParameterizedCall(@, token.value,
                                   [range |-> CreateRange(token), arguments |-> args]),
            !.calls = Append(@, [op |-> "addParameterizedCall",
                                 name |-> token.value, type |-> "",
                                 range |-> CreateRange(token),
                                 body |-> s.frame.body, scope |-> s.frame.params])]

\* the suffix check without its bounds and token tests
SuffixOperatorUnguarded(s) == Advance(s)

\* "Check for suffix operators" in the rule bodies
SuffixOperator(s) ==
  IF IsType(s.idx, "SPECIAL") /\ Tok(s.idx).value \in {<<"?">>, <<"*">>, <<"+">>}
  THEN Advance(s) ELSE s

\* after skipNamedReference returns, or when no '[' follows
AfterNamedReference(s) ==
  LET s1 == IF s.frame.after = "ref" THEN SuffixOperator(s) ELSE s
  IN [s1 EXCEPT !.pc = s.frame.body, !.frame.after = ""]

\* "Check for named reference": on '[' skipNamedReference starts (it skips
\* the '[' first), else the body goes on
NamedReference(s, after) ==
  IF IsSpecial(s.idx, "[")
  THEN [Advance(s) EXCEPT !.pc = "skipNamedReference", !.frame.after = after]
  ELSE AfterNamedReference([s EXCEPT !.frame.after = after])

\* after parseArgumentList / parseArgumentListWithContext returns args
AfterCall(s) ==
  LET s1 == Call(s, s.frame.call[1], s.frame.args)
  IN NamedReference([s1 EXCEPT !.frame.call = <<>>, !.frame.args = <<>>,
                               !.frame.depth = 0], "call")

\* after skipCodeBlock returns: to parseGrammar from parseCodeBlockDeclaration,
\* else to the rule body's "Check for midrule type tag"
AfterCodeBlock(s) ==
  IF s.frame.body = "" THEN Return(s)
  ELSE LET s1 == IF IsType(s.idx, "TYPE_TAG") THEN Advance(s) ELSE s
       IN [s1 EXCEPT !.pc = s.frame.body, !.frame.depth = 0]

\* parseParameterizedRuleDeclaration from "Create appropriate symbol" on
AfterParameters(s, isParameterized) ==
  LET nameToken == s.frame.name[1]
      params == s.frame.params
      s1 == IF isParameterized
            THEN DefineParameterized(s, nameToken, params)
            ELSE DefineSymbol(s, nameToken, SymbolType.Rule)
      s2 == IF IsType(s1.idx, "TYPE_TAG")
            THEN Advance(IF isParameterized
                         THEN [s1 EXCEPT !.parameterizedRules =
                                 SetTypeTag(@, nameToken.value, Tok(s1.idx).value)]
                         ELSE [s1 EXCEPT !.symbols =
                                 SetTypeTag(@, nameToken.value, Tok(s1.idx).value)])
            ELSE s1
  IN IF IsSpecial(s2.idx, ":")
     THEN [Advance(s2) EXCEPT
             !.pc = IF isParameterized THEN "parseParameterizedRuleBody"
                                       ELSE "parseRuleBody",
             !.frame = [NoFrame EXCEPT
                          !.body = IF isParameterized
                                   THEN "parseParameterizedRuleBody"
                                   ELSE "parseRuleBody",
                          !.params = IF isParameterized THEN params ELSE <<>>]]
     ELSE Return(s2)

\* parseParameterizedRuleDeclaration up to its parameter loop
ParseParameterizedRuleDeclaration(s) ==
  LET s1 == Advance(s)
      s2 == IF IsDirective(s1.idx, D_inline) THEN Advance(s1) ELSE s1
  IN IF IsType(s2.idx, "IDENTIFIER")
     THEN LET s3 == [Advance(s2) EXCEPT !.frame.name = << Tok(s2.idx) >>]
          IN IF IsSpecial(s3.idx, "(")
             THEN [Advance(s3) EXCEPT !.pc = "parseParameterizedRuleDeclaration"]
             ELSE AfterParameters(s3, FALSE)
     ELSE s2

\* one iteration of parseParameterizedRuleDeclaration's parameter loop
ParameterListIter(s) ==
  LET token == Tok(s.idx)
  IN IF token.type = "SPECIAL" /\ token.value = <<")">>
     THEN AfterParameters(Advance(s), TRUE)
     ELSE IF token.type = "IDENTIFIER"
     THEN [Advance(s) EXCEPT !.frame.params = Append(@, token.value)]
     ELSE Advance(s)

\* the declaration's type tag: "Check for type tag" of the three declarations
DeclarationTypeTag(s, loop) ==
  IF IsType(s.idx, "TYPE_TAG")
  THEN [Advance(s) EXCEPT !.pc = loop, !.frame.typeTag = << Tok(s.idx).value >>]
  ELSE [s EXCEPT !.pc = loop]

\* if (typeTag) symbol.typeTag = typeTag
WithTypeTag(s, name) ==
  IF s.frame.typeTag # <<>> /\ s.frame.typeTag[1] # <<>>
  THEN [s EXCEPT !.symbols = SetTypeTag(@, name, s.frame.typeTag[1])]
  ELSE s

\* one iteration of the name loop of parseTokenDeclaration
ParseTokenDeclarationIter(s) ==
  LET token == Tok(s.idx)
  IN IF token.type = "IDENTIFIER"
     THEN Advance(WithTypeTag(DefineSymbol(s, token, SymbolType.Token), token.value))
     ELSE Advance(s)

\* one iteration of the name loop of parseTypeDeclaration
ParseTypeDeclarationIter(s) ==
  LET token == Tok(s.idx)
  IN IF token.type = "IDENTIFIER"
     THEN Advance(WithTypeTag(DefineSymbol(s, token, SymbolType.Type), token.value))
     ELSE Advance(s)

\* one iteration of the name loop of parseNtermDeclaration
ParseNtermDeclarationIter(s) ==
  LET token == Tok(s.idx)
  IN IF token.type = "IDENTIFIER"
     THEN Advance(WithTypeTag(DefineSymbol(s, token, SymbolType.Nonterminal),
                              token.value))
     ELSE Advance(s)

\* a precedence loop that defines the listed identifiers only
ParsePrecedenceDeclarationIdentifiersIter(s) ==
  LET token == Tok(s.idx)
  IN IF token.type = "IDENTIFIER"
     THEN Advance(DefineSymbol(s, token, SymbolType.Token))
     ELSE Advance(s)

\* one iteration of parsePrecedenceDeclaration's loop
ParsePrecedenceDeclarationIter(s) ==
  LET token == Tok(s.idx)
  IN IF token.type \in {"IDENTIFIER", "CHARACTER"}
     THEN Advance(DefineSymbol(s, token, SymbolType.Token))
     ELSE Advance(s)

\* parseStartDeclaration
ParseStartDeclaration(s) ==
  LET s1 == Advance(s)
  IN IF IsType(s1.idx, "IDENTIFIER")
     THEN Advance(DefineSymbol(s1, Tok(s1.idx), SymbolType.Start))
     ELSE s1

\* one iteration of parseUnionDeclaration's "Skip union block content" loop
ParseUnionDeclarationIter(s) ==
  LET token == Tok(s.idx)
  IN IF token.type = "SPECIAL" /\ token.value = <<"{">>
     THEN [Advance(s) EXCEPT !.frame.depth = @ + 1]
     ELSE IF token.type = "SPECIAL" /\ token.value = <<"}">>
     THEN IF s.frame.depth - 1 = 0
          THEN Return(Advance(s))
          ELSE [Advance(s) EXCEPT !.frame.depth = @ - 1]
     ELSE Advance(s)

\* a skipCodeBlock that ends at the first closing brace
SkipCodeBlockFlatIter(s) ==
  LET token == Tok(s.idx)
  IN IF token.type = "SPECIAL" /\ token.value = <<"}">>
     THEN AfterCodeBlock(Advance([s EXCEPT !.frame.depth = 0]))
     ELSE [Advance(s) EXCEPT !.frame.depth = 1, !.pc = "skipCodeBlock"]

\* one iteration of skipCodeBlock's loop
SkipCodeBlockIter(s) ==
  LET token == Tok(s.idx)
  IN IF token.type = "SPECIAL" /\ token.value = <<"{">>
     THEN [Advance(s) EXCEPT !.frame.depth = @ + 1, !.pc = "skipCodeBlock"]
     ELSE IF token.type = "SPECIAL" /\ token.value = <<"}">>
     THEN IF s.frame.depth - 1 = 0
          THEN AfterCodeBlock(Advance([s EXCEPT !.frame.depth = 0]))
          ELSE [Advance(s) EXCEPT !.frame.depth = @ - 1]
     ELSE Advance(s)

\* one iteration of skipNamedReference's loop
SkipNamedReferenceIter(s) ==
  IF IsSpecial(s.idx, "]") THEN AfterNamedReference(Advance(s)) ELSE Advance(s)

\* a DIRECTIVE branch that skips %prec like any other directive
BodyDirectiveSkipped(s) == Advance(s)

\* the DIRECTIVE branch of the rule bodies: %prec, %empty, other directives
BodyDirective(s) ==
  IF Tok(s.idx).value = D_prec
  THEN LET s1 == Advance(s)
       IN IF IsType(s1.idx, "IDENTIFIER") \/ IsType(s1.idx, "CHARACTER")
          THEN Advance(Reference(s1, Tok(s1.idx)))
          ELSE s1
  ELSE Advance(s)

\* the call branch of the rule bodies: callRange, skip the name and '('
BeginCall(s, argumentLoop) ==
  [s EXCEPT !.idx = (s.idx + 1) + 1, !.pc = argumentLoop,
            !.frame.call = << Tok(s.idx) >>, !.frame.args = <<>>,
            !.frame.depth = 1]

\* one iteration of parseRuleBody's loop
ParseRuleBodyIter(s) ==
  LET token == Tok(s.idx)
  IN IF token.type = "SPECIAL" /\ token.value = <<";">> THEN Return(Advance(s))
     ELSE IF token.type = "SPECIAL" /\ token.value = <<"|">> THEN Advance(s)
     ELSE IF token.type = "SPECIAL" /\ token.value = <<"{">>
     THEN SkipCodeBlockIter([s EXCEPT !.frame.depth = 0])
     ELSE IF token.type = "DIRECTIVE" THEN BodyDirective(s)
     ELSE IF token.type = "IDENTIFIER"
     THEN IF IsSpecial(s.idx + 1, "(")
          THEN BeginCall(s, "parseArgumentList")
          ELSE NamedReference(Advance(Reference(s, token)), "ref")
     ELSE IF token.type = "CHARACTER" THEN SuffixOperator(Advance(s))
     ELSE Advance(s)

\* one iteration of parseParameterizedRuleBody's loop; currentParameters is
\* frame.params
ParseParameterizedRuleBodyIter(s) ==
  LET token == Tok(s.idx)
  IN IF token.type = "SPECIAL" /\ token.value = <<";">> THEN Return(Advance(s))
     ELSE IF token.type = "SPECIAL" /\ token.value = <<"|">> THEN Advance(s)
     ELSE IF token.type = "SPECIAL" /\ token.value = <<"{">>
     THEN SkipCodeBlockIter([s EXCEPT !.frame.depth = 0])
     ELSE IF token.type = "DIRECTIVE" THEN BodyDirective(s)
     ELSE IF token.type = "IDENTIFIER"
     THEN IF IsSpecial(s.idx + 1, "(")
          THEN BeginCall(s, "parseArgumentListWithContext")
          ELSE IF \E k \in 1 .. Len(s.frame.params) : s.frame.params[k] = token.value
          THEN Advance(s)
          ELSE NamedReference(Advance(Reference(s, token)), "ref")
     ELSE IF token.type = "CHARACTER" THEN SuffixOperator(Advance(s))
     ELSE Advance(s)

\* one iteration of parseArgumentList's loop
ParseArgumentListIter(s) ==
  LET token == Tok(s.idx)
      parenDepth == s.frame.depth
  IN IF token.type = "SPECIAL" /\ token.value = <<"(">>
     THEN [Advance(s) EXCEPT !.frame.depth = parenDepth + 1]
     ELSE IF token.type = "SPECIAL" /\ token.value = <<")">>
     THEN IF parenDepth - 1 = 0
          THEN AfterCall(Advance(s))
          ELSE [Advance(s) EXCEPT !.frame.depth = parenDepth - 1]
     ELSE IF token.type = "SPECIAL" /\ token.value = <<",">> /\ parenDepth = 1
     THEN Advance(s)
     ELSE IF token.type = "IDENTIFIER" /\ parenDepth = 1
     THEN Advance(Reference([s EXCEPT !.frame.args = Append(@, token.value)], token))
     ELSE IF token.type = "CHARACTER" /\ parenDepth = 1
     THEN [Advance(s) EXCEPT !.frame.args = Append(@, token.value)]
     ELSE Advance(s)

\* the argument loop without its test of the parameters in scope
ParseArgumentListIgnoringContextIter(s) == ParseArgumentListIter(s)

\* one iteration of parseArgumentListWithContext's loop; knownParameters is
\* frame.params
ParseArgumentListWithContextIter(s) ==
  LET token == Tok(s.idx)
      parenDepth == s.frame.depth
      known == \E k \in 1 .. Len(s.frame.params) : s.frame.params[k] = token.value
  IN IF token.type = "SPECIAL" /\ token.value = <<"(">>
     THEN [Advance(s) EXCEPT !.frame.depth = parenDepth + 1]
     ELSE IF token.type = "SPECIAL" /\ token.value = <<")">>
     THEN IF parenDepth - 1 = 0
          THEN AfterCall(Advance(s))
          ELSE [Advance(s) EXCEPT !.frame.depth = parenDepth - 1]
     ELSE IF token.type = "SPECIAL" /\ token.value = <<",">> /\ parenDepth = 1
     THEN Advance(s)
     ELSE IF token.type = "IDENTIFIER" /\ parenDepth = 1
     THEN LET s1 == [s EXCEPT !.frame.args = Append(@, token.value)]
          IN Advance(IF known THEN s1 ELSE Reference(s1, token))
     ELSE IF token.type = "CHARACTER" /\ parenDepth = 1
     THEN [Advance(s) EXCEPT !.frame.args = Append(@, token.value)]
     ELSE Advance(s)

\* parseRule's lookahead past the rule name's own named reference:
\* nextIndex before "Check for colon"
RuleNameLookahead(i) ==
  IF IsSpecial(i + 1, "[")
  THEN LET closes == { k \in (i + 2) .. (Len(tokens) - 1) : Tok(k).value = <<"]">> }
           stop == IF closes = {} THEN Len(tokens)
                   ELSE CHOOSE k \in closes : \A j \in closes : k <= j
       IN IF stop < Len(tokens) THEN stop + 1 ELSE stop
  ELSE i + 1

\* parseRule
ParseRule(s) ==
  LET token == Tok(s.idx)
      nextIndex == RuleNameLookahead(s.idx)
  IN IF token.type = "DIRECTIVE" /\ token.value = D_rule
     THEN ParseParameterizedRuleDeclaration(s)
     ELSE IF token.type = "IDENTIFIER" /\ IsSpecial(nextIndex, ":")
     THEN [DefineSymbol(s, token, SymbolType.Rule) EXCEPT
             !.idx = nextIndex + 1, !.pc = "parseRuleBody",
             !.frame = [NoFrame EXCEPT !.body = "parseRuleBody"]]
     ELSE Advance(s)

\* parseDeclaration
ParseDeclaration(s) ==
  LET token == Tok(s.idx)
  IN IF token.type = "DIRECTIVE"
     THEN CASE token.value = D_token ->
                 DeclarationTypeTag(Advance(s), "parseTokenDeclaration")
            [] token.value = D_type ->
                 DeclarationTypeTag(Advance(s), "parseTypeDeclaration")
            [] token.value = D_nterm ->
                 DeclarationTypeTag(Advance(s), "parseNtermDeclaration")
            [] token.value = D_rule -> ParseParameterizedRuleDeclaration(s)
            [] token.value = D_start -> ParseStartDeclaration(s)
            [] token.value = D_union ->
                 [Advance(s) EXCEPT !.pc = "parseUnionDeclaration.seek"]
            [] token.value \in {D_left, D_right, D_nonassoc, D_precedence} ->
                 [Advance(s) EXCEPT !.pc = "parsePrecedenceDeclaration"]
            [] token.value \in {D_destructor, D_printer} ->
                 [Advance(s) EXCEPT !.pc = "parseCodeBlockDeclaration"]
            [] OTHER ->
                 [Advance(s) EXCEPT !.pc = "skipToEndOfLine",
                                    !.frame.line = token.line]
     ELSE IF token.type = "PROLOGUE_START"
     THEN [Advance(s) EXCEPT !.pc = "skipPrologue"]
     ELSE Advance(s)

\* one iteration of skipPrologue's loop
SkipPrologueIter(s) ==
  IF IsType(s.idx, "PROLOGUE_END") THEN Return(Advance(s)) ELSE Advance(s)

\* a section switch that wraps around after the epilogue
NextSectionCyclic(sec) ==
  IF sec = "declarations" THEN "rules"
  ELSE IF sec = "rules" THEN "epilogue"
  ELSE "declarations"

\* parseGrammar: the section a %% token moves to
NextSection(sec) ==
  IF sec = "declarations" THEN "rules"
  ELSE IF sec = "rules" THEN "epilogue"
  ELSE sec

\* parseGrammar: the separator branch
SeparatorIter(s) == [Advance(s) EXCEPT !.section = NextSection(@)]

\* an epilogue branch that parses rules instead of skipping
EpilogueIterParsing(s) == ParseRule(s)

\* parseGrammar: case "epilogue"
EpilogueIter(s) == Advance(s)

IsSeparator(token) == token.type = "SEPARATOR" /\ token.value = <<"%", "%">>

DeclarationLoops ==
  {"parseTokenDeclaration", "parseTypeDeclaration", "parseNtermDeclaration",
   "parsePrecedenceDeclaration"}

\* whether the loop at s.pc runs another iteration: its while condition, and
\* for the loops that test a terminator first and break on it without
\* consuming it (isEndOfDeclaration, the opening brace of the seeking loops,
\* the line of skipToEndOfLine) that test too
Continues(s) ==
  /\ s.idx < Len(tokens)
  /\ s.pc \in DeclarationLoops => ~IsEndOfDeclaration(Tok(s.idx))
  /\ s.pc \in {"parseUnionDeclaration.seek", "parseCodeBlockDeclaration"}
       => ~IsSpecial(s.idx, "{")
  /\ s.pc = "skipToEndOfLine" => Tok(s.idx).line = s.frame.line

\* the code that follows the loop at s.pc when the loop ends without a
\* further iteration
LoopExit(s) ==
  CASE s.pc = "parseGrammar" -> [s EXCEPT !.pc = "validateSymbols"]
    [] s.pc = "parseUnionDeclaration.seek" ->
         [s EXCEPT !.pc = "parseUnionDeclaration.block", !.frame.depth = 0]
    [] s.pc = "parseCodeBlockDeclaration" ->
         [s EXCEPT !.pc = "skipCodeBlock", !.frame.depth = 0]
    [] s.pc = "parseParameterizedRuleDeclaration" -> AfterParameters(s, TRUE)
    [] s.pc \in {"parseArgumentList", "parseArgumentListWithContext"} -> AfterCall(s)
    [] s.pc = "skipCodeBlock" -> AfterCodeBlock(s)
    [] s.pc = "skipNamedReference" -> AfterNamedReference(s)
    [] OTHER -> Return(s)

\* run the loop exits that are due, up to the next loop iteration
RECURSIVE Settle(_)
Settle(s) ==
  IF s.pc = "validateSymbols" \/ Continues(s) THEN s ELSE Settle(LoopExit(s))

----------------------------------------------------------------------------
(* The validator: validateSymbols, run by parse() after parseGrammar        *)

\* name.split("(")[0]
BaseName(name) ==
  IF \E i \in 1 .. Len(name) : name[i] = "("
  THEN SubSeq(name, 1, (CHOOSE i \in 1 .. Len(name) :
                          /\ name[i] = "("
                          /\ \A j \in 1 .. (i - 1) : name[j] # "(") - 1)
  ELSE name

\* LramaParser.isCharacterLiteral(name)
IsCharacterLiteral(name) ==
  Len(name) >= 1 /\ name[1] = "'" /\ name[Len(name)] = "'"

\* isBuiltinFunction's builtins
Builtins ==
  { <<"o", "p", "t", "i", "o", "n">>,
    <<"i", "o", "p", "t", "i", "o", "n">>,
    <<"l", "i", "s", "t">>,
    <<"n", "o", "n", "e", "m", "p", "t", "y", "_", "l", "i", "s", "t">>,
    <<"s", "e", "p", "a", "r", "a", "t", "e", "d", "_", "l", "i", "s", "t">>,
    <<"s", "e", "p", "a", "r", "a", "t", "e", "d", "_", "n", "o", "n", "e", "m", "p", "t", "y", "_", "l", "i", "s", "t">>,
    <<"p", "r", "e", "c", "e", "d", "e", "d">>,
    <<"t", "e", "r", "m", "i", "n", "a", "t", "e", "d">>,
    <<"d", "e", "l", "i", "m", "i", "t", "e", "d">> }

\* LramaParser.isBuiltinFunction(name)
IsBuiltinFunction(name) == BaseName(name) \in Builtins

\* LramaParser.isLikelyToken(name)
IsLikelyToken(name) ==
  LET baseName == BaseName(name)
  IN \/ /\ Len(baseName) >= 1
        /\ \A i \in 1 .. Len(baseName) : baseName[i] \in Upper \cup {"_"}
     \/ StartsWith(baseName, <<"t">>)
     \/ StartsWith(baseName, <<"k">>)
     \/ StartsWith(baseName, <<"T", "O", "K", "E", "N">>)

\* isCommonParameter's commonParams
CommonParams ==
  { <<"X">>,
    <<"Y">>,
    <<"Z">>,
    <<"A">>,
    <<"B">>,
    <<"C">>,
    <<"i", "t", "e", "m">>,
    <<"e", "l", "e", "m", "e", "n", "t">>,
    <<"s", "e", "p", "a", "r", "a", "t", "o", "r">>,
    <<"v", "a", "l", "u", "e">>,
    <<"a", "r", "g">>,
    <<"a", "r", "g", "s">>,
    <<"p", "a", "r", "a", "m">>,
    <<"p", "a", "r", "a", "m", "s">>,
    <<"l", "i", "s", "t">>,
    <<"e", "l", "e", "m">>,
    <<"e", "x", "p", "r">>,
    <<"s", "t", "m", "t">> }

\* LramaParser.isCommonParameter(name)
IsCommonParameter(name) == name \in CommonParams

\* SymbolTable.getAllSymbols(): the parameterized rules, then the symbols
GetAllSymbols(syms, prules) == prules \o syms

\* validateSymbols: knownParameters, the parameters of all parameterized rules
KnownParameters(all) ==
  UNION { { all[i].parameters[1][k] : k \in 1 .. Len(all[i].parameters[1]) } :
          i \in { j \in 1 .. Len(all) :
                    /\ all[j].type = SymbolType.ParameterizedRule
                    /\ all[j].parameters # <<>> } }

\* LramaParser.addDiagnostic's literal
Diagnostic(range, message, severity) ==
  [severity |-> severity, range |-> range, message |-> message,
   source |-> "lrama"]

\* validateSymbols: "Check for undefined symbols" for one symbol
UndefinedDiagnostics(symbol, knownParameters) ==
  IF /\ Len(symbol.references) > 0
     /\ symbol.definition = <<>>
     /\ symbol.name \notin knownParameters
     /\ ~IsCharacterLiteral(symbol.name)
     /\ ~IsBuiltinFunction(symbol.name)
     /\ ~IsLikelyToken(symbol.name)
     /\ ~IsCommonParameter(symbol.name)
  THEN [k \in 1 .. Len(symbol.references) |->
          Diagnostic(symbol.references[k].range,
                     << "Symbol '", symbol.name, "' is not defined" >>,
                     "Warning")]
  ELSE <<>>

\* the unused check without its test of the symbol's kind
UnusedDiagnosticsAnyKind(symbol) ==
  IF /\ symbol.definition # <<>>
     /\ Len(symbol.references) = 0
     /\ Len(symbol.parameterizedCalls) = 0
     /\ ~IsCharacterLiteral(symbol.name)
  THEN << Diagnostic(symbol.definition[1].nameRange,
                     << "Rule '", symbol.name, "' is defined but never used" >>,
                     "Information") >>
  ELSE <<>>

\* validateSymbols: "Check for unused symbols" for one symbol; when the
\* undefined check has left the iteration by `continue` it is not reached,
\* and then the symbol has no definition
UnusedDiagnostics(symbol) ==
  IF /\ symbol.definition # <<>>
     /\ Len(symbol.references) = 0
     /\ Len(symbol.parameterizedCalls) = 0
     /\ symbol.type = SymbolType.Rule
     /\ ~IsCharacterLiteral(symbol.name)
  THEN << Diagnostic(symbol.definition[1].nameRange,
                     << "Rule '", symbol.name, "' is defined but never used" >>,
                     "Information") >>
  ELSE <<>>

\* validateSymbols: the diagnostics of the second loop from symbol i on
RECURSIVE ValidateFrom(_, _, _)
ValidateFrom(all, knownParameters, i) ==
  IF i > Len(all) THEN <<>>
  ELSE LET symbol == all[i]
           skipped == /\ symbol.type = SymbolType.ParameterizedRule
                      /\ ~symbol.isParameterized
                      /\ symbol.definition = <<>>
       IN (IF skipped THEN <<>>
           ELSE UndefinedDiagnostics(symbol, knownParameters)
                  \o UnusedDiagnostics(symbol))
          \o ValidateFrom(all, knownParameters, i + 1)

\* validateSymbols: the diagnostics it adds for a symbol table
Validate(syms, prules) ==
  LET all == GetAllSymbols(syms, prules)
  IN ValidateFrom(all, KnownParameters(all), 1)

----------------------------------------------------------------------------
(* Position queries: SymbolTable.getSymbolAtPosition                        *)

\* the offset at which line number `line` of the document starts
RECURSIVE LineOffset(_)
LineOffset(line) ==
  IF line = 0 THEN 0 ELSE LineOffset(line - 1) + Len(lines[line]) + 1

\* document.offsetAt(position), for a position within a line of the document
OffsetAt(pos) == LineOffset(pos.line) + pos.character

\* offset >= start && offset <= end, on the offsets of a range's two ends
Within(range, offset) ==
  offset >= OffsetAt(range.start) /\ offset <= OffsetAt(range.end)

ParameterizedDefinitionPriority == 100
ParameterizedCallPriority == 90
DefinitionPriority == 50
ReferencePriority == 10

\* if (priority > bestMatchPriority) { bestMatch = symbol; ... } for a symbol
\* of the named map, done when `matches` holds
Better(best, map, symbol, priority, matches) ==
  IF matches /\ priority > best.priority
  THEN [match |-> << [map |-> map, symbol |-> symbol] >>, priority |-> priority]
  ELSE best

\* getSymbolAtPosition: the loop over this.parameterizedRules.values()
RECURSIVE ScanParameterizedRules(_, _, _, _)
ScanParameterizedRules(prules, i, offset, best) ==
  IF i > Len(prules) THEN best
  ELSE LET symbol == prules[i]
           b1 == Better(best, "parameterizedRules", symbol,
                        ParameterizedDefinitionPriority,
                        /\ symbol.definition # <<>>
                        /\ Within(symbol.definition[1].nameRange, offset))
           b2 == Better(b1, "parameterizedRules", symbol,
                        ParameterizedCallPriority,
                        \E k \in 1 .. Len(symbol.parameterizedCalls) :
                           Within(symbol.parameterizedCalls[k].range, offset))
       IN ScanParameterizedRules(prules, i + 1, offset, b2)

\* getSymbolAtPosition: the loop over this.symbols.values()
RECURSIVE ScanSymbols(_, _, _, _)
ScanSymbols(syms, i, offset, best) ==
  IF i > Len(syms) THEN best
  ELSE LET symbol == syms[i]
           b1 == Better(best, "symbols", symbol, DefinitionPriority,
                        /\ symbol.definition # <<>>
                        /\ Within(symbol.definition[1].nameRange, offset))
           b2 == Better(b1, "symbols", symbol, ReferencePriority,
                        \E k \in 1 .. Len(symbol.references) :
                           Within(symbol.references[k].range, offset))
       IN ScanSymbols(syms, i + 1, offset, b2)

\* SymbolTable.getSymbolAtPosition(document, position): << >> for undefined,
\* else the symbol with the map that holds it
GetSymbolAtPosition(syms, prules, pos) ==
  LET offset == OffsetAt(pos)
      none == [match |-> <<>>, priority |-> -1]
  IN ScanSymbols(syms, 1, offset,
                 ScanParameterizedRules(prules, 1, offset, none)).match

\* the positions of the document: every character of every line, and the
\* end of every line
Positions ==
  UNION { { [line |-> l, character |-> c] : c \in 0 .. Len(lines[l + 1]) } :
          l \in 0 .. (Len(lines) - 1) }

----------------------------------------------------------------------------
(* The documents analysed: every text that is a concatenation of at most    *)
(* MaxPhrases phrases of one profile.                                       *)

MaxPhrases == 3

\* rules with forward references, with and without the closing semicolon
RulePhrases ==
    \* %%\n
  { <<"%", "%", "\n">>,
    \* a: b ;\n
    <<"a", ":", " ", "b", " ", ";", "\n">>,
    \* b: a b\n
    <<"b", ":", " ", "a", " ", "b", "\n">>,
    \* %type b\n
    <<"%", "t", "y", "p", "e", " ", "b", "\n">>,
    \* x 
    <<"x", " ">> }

\* the declarations with name lists
DeclarationPhrases ==
    \* %token <t> A 'c' "s"\n
  { <<"%", "t", "o", "k", "e", "n", " ", "<", "t", ">", " ", "A", " ",
      "'", "c", "'", " ", "\"", "s", "\"", "\n">>,
    \* %type <t> a 
    <<"%", "t", "y", "p", "e", " ", "<", "t", ">", " ", "a", " ">>,
    \* %nterm a\n
    <<"%", "n", "t", "e", "r", "m", " ", "a", "\n">>,
    \* %left A '+' 
    <<"%", "l", "e", "f", "t", " ", "A", " ", "'", "+", "'", " ">>,
    \* %start a 
    <<"%", "s", "t", "a", "r", "t", " ", "a", " ">> }

\* the declarations with blocks, the prologue, other directives
BlockPhrases ==
    \* %union a { a { } } 
  { <<"%", "u", "n", "i", "o", "n", " ", "a", " ", "{", " ", "a", " ", "{", " ",
      "}", " ", "}", " ">>,
    \* %destructor a { } 
    <<"%", "d", "e", "s", "t", "r", "u", "c", "t", "o", "r", " ", "a",
      " ", "{", " ", "}", " ">>,
    \* %{ a %}\n
    <<"%", "{", " ", "a", " ", "%", "}", "\n">>,
    \* %debug a\n
    <<"%", "d", "e", "b", "u", "g", " ", "a", "\n">>,
    \* %% a: ; 
    <<"%", "%", " ", "a", ":", " ", ";", " ">>,
    \* %rule a: { a { b } } <t> b ;\n
    <<"%", "r", "u", "l", "e", " ", "a", ":", " ", "{", " ", "a", " ", "{",
      " ", "b", " ", "}", " ", "}", " ", "<", "t", ">", " ", "b", " ", ";",
      "\n">>,
    \* } { 
    <<"}", " ", "{", " ">> }

\* parameterized rules and calls
ParameterizedPhrases ==
    \* %rule f(X): X a ;\n
  { <<"%", "r", "u", "l", "e", " ", "f", "(", "X", ")", ":", " ", "X",
      " ", "a", " ", ";", "\n">>,
    \* %rule %inline f(Y) <t>: g(Y, a) Y ;\n
    <<"%", "r", "u", "l", "e", " ", "%", "i", "n", "l", "i", "n", "e",
      " ", "f", "(", "Y", ")", " ", "<", "t", ">", ":", " ", "g", "(",
      "Y", ",", " ", "a", ")", " ", "Y", " ", ";", "\n">>,
    \* %rule g <t>: a 
    <<"%", "r", "u", "l", "e", " ", "g", " ", "<", "t", ">", ":", " ",
      "a", " ">>,
    \* %%\n
    <<"%", "%", "\n">>,
    \* a[n]: f(b, 'c')[m] b[n]? 'c'* ;\n
    <<"a", "[", "n", "]", ":", " ", "f", "(", "b", ",", " ", "'", "c",
      "'", ")", "[", "m", "]", " ", "b", "[", "n", "]", "?", " ", "'",
      "c", "'", "*", " ", ";", "\n">>,
    \* a: f(g(b)) { a } <t> %prec b | %empty ;\n
    <<"a", ":", " ", "f", "(", "g", "(", "b", ")", ")", " ", "{", " ",
      "a", " ", "}", " ", "<", "t", ">", " ", "%", "p", "r", "e", "c",
      " ", "b", " ", "|", " ", "%", "e", "m", "p", "t", "y", " ", ";",
      "\n">> }

\* unmatched opening and closing constructs
OpenPhrases ==
    \* %% 
  { <<"%", "%", " ">>,
    \* a: 
    <<"a", ":", " ">>,
    \* f( 
    <<"f", "(", " ">>,
    \* b[ 
    <<"b", "[", " ">>,
    \* { 
    <<"{", " ">>,
    \* ) 
    <<")", " ">>,
    \* ] 
    <<"]", " ">>,
    \* } 
    <<"}", " ">>,
    \* %rule f( 
    <<"%", "r", "u", "l", "e", " ", "f", "(", " ">>,
    \* %prec 
    <<"%", "p", "r", "e", "c", " ">> }

\* comments
CommentPhrases ==
    \* /*
  { <<"/", "*">>,
    \* */
    <<"*", "/">>,
    \* //
    <<"/", "/">>,
    \* \n
    <<"\n">>,
    \* a 
    <<"a", " ">> }

\* directive spellings and their neighbours
DirectivePhrases ==
    \* %
  { <<"%">>,
    \* prec
    <<"p", "r", "e", "c">>,
    \* edence 
    <<"e", "d", "e", "n", "c", "e", " ">>,
    \* after-shift
    <<"a", "f", "t", "e", "r", "-", "s", "h", "i", "f", "t">>,
    \* -error-token 
    <<"-", "e", "r", "r", "o", "r", "-", "t", "o", "k", "e", "n", " ">>,
    \* token
    <<"t", "o", "k", "e", "n">>,
    \* s 
    <<"s", " ">> }

\* strings, character literals, type tags
LiteralPhrases ==
    \* "
  { <<"\"">>,
    \* '
    <<"'">>,
    \* \\
    <<"\\">>,
    \* a
    <<"a">>,
    \* <
    <<"<">>,
    \* >
    <<">">>,
    \*  
    <<" ">> }

\* one name in both namespaces, and occurrences that touch
NamespacePhrases ==
    \* %rule f(X): f(X) f ;\n
  { <<"%", "r", "u", "l", "e", " ", "f", "(", "X", ")", ":", " ", "f",
      "(", "X", ")", " ", "f", " ", ";", "\n">>,
    \* %rule f: a f(a) ;\n
    <<"%", "r", "u", "l", "e", " ", "f", ":", " ", "a", " ", "f", "(",
      "a", ")", " ", ";", "\n">>,
    \* %token A'c'\n
    <<"%", "t", "o", "k", "e", "n", " ", "A", "'", "c", "'", "\n">>,
    \* %%\n
    <<"%", "%", "\n">>,
    \* f: f(b) %prec 'c'f(a) ;\n
    <<"f", ":", " ", "f", "(", "b", ")", " ", "%", "p", "r", "e", "c",
      " ", "'", "c", "'", "f", "(", "a", ")", " ", ";", "\n">> }

\* bracketed aliases and parameters in every position of a body
AliasPhrases ==
    \* %%\n
  { <<"%", "%", "\n">>,
    \* a: b[n] 'c'[m] ;\n
    <<"a", ":", " ", "b", "[", "n", "]", " ", "'", "c", "'", "[", "m",
      "]", " ", ";", "\n">>,
    \* a: { } [n] f(b[m]) ;\n
    <<"a", ":", " ", "{", " ", "}", " ", "[", "n", "]", " ", "f", "(",
      "b", "[", "m", "]", ")", " ", ";", "\n">>,
    \* %rule f(X): X[n] b[m] %prec X ;\n
    <<"%", "r", "u", "l", "e", " ", "f", "(", "X", ")", ":", " ", "X",
      "[", "n", "]", " ", "b", "[", "m", "]", " ", "%", "p", "r", "e",
      "c", " ", "X", " ", ";", "\n">>,
    \* %rule g(Y): f(Y, a) Y? ;\n
    <<"%", "r", "u", "l", "e", " ", "g", "(", "Y", ")", ":", " ", "f",
      "(", "Y", ",", " ", "a", ")", " ", "Y", "?", " ", ";", "\n">> }

\* names the validator excludes, and names it reports
ValidatorPhrases ==
    \* %%\n
  { <<"%", "%", "\n">>,
    \* a: error YYEOF ;\n
    <<"a", ":", " ", "e", "r", "r", "o", "r", " ", "Y", "Y", "E", "O",
      "F", " ", ";", "\n">>,
    \* b: a tk option item %prec '+' ;\n
    <<"b", ":", " ", "a", " ", "t", "k", " ", "o", "p", "t", "i", "o",
      "n", " ", "i", "t", "e", "m", " ", "%", "p", "r", "e", "c", " ",
      "'", "+", "'", " ", ";", "\n">>,
    \* %rule f(b): b ;\n
    <<"%", "r", "u", "l", "e", " ", "f", "(", "b", ")", ":", " ", "b",
      " ", ";", "\n">>,
    \* %rule f(c): b c ;\n
    <<"%", "r", "u", "l", "e", " ", "f", "(", "c", ")", ":", " ", "b",
      " ", "c", " ", ";", "\n">>,
    \* b: c c ;\n
    <<"b", ":", " ", "c", " ", "c", " ", ";", "\n">> }

\* the lines of the grammars of the documented scenarios
ScenarioPhrases ==
    \* %rule list(X): %empty | list(X) X ;\n
  << <<"%", "r", "u", "l", "e", " ", "l", "i", "s", "t", "(", "X", ")", ":",
      " ", "%", "e", "m", "p", "t", "y", " ", "|", " ", "l", "i", "s", "t",
      "(", "X", ")", " ", "X", " ", ";", "\n">>,
    \* %%\n
    <<"%", "%", "\n">>,
    \* prog: list(stmt) ;\n
    <<"p", "r", "o", "g", ":", " ", "l", "i", "s", "t", "(", "s", "t", "m",
      "t", ")", " ", ";", "\n">>,
    \* %token NUM\n
    <<"%", "t", "o", "k", "e", "n", " ", "N", "U", "M", "\n">>,
    \* expr: NUM | expr '+' expr ;\n
    <<"e", "x", "p", "r", ":", " ", "N", "U", "M", " ", "|", " ", "e", "x",
      "p", "r", " ", "'", "+", "'", " ", "e", "x", "p", "r", " ", ";",
      "\n">> >>

\* %rule list(X): %empty | list(X) X ;\n%%\nprog: list(stmt) ;\n
ListGrammar == ScenarioPhrases[1] \o ScenarioPhrases[2] \o ScenarioPhrases[3]

\* %token NUM\n%%\nexpr: NUM | expr '+' expr ;\n
ExprGrammar == ScenarioPhrases[4] \o ScenarioPhrases[2] \o ScenarioPhrases[5]

\* %prec in the rule bodies, with and without a symbol after it
PrecPhrases ==
    \* %rule a: %prec b 
  { <<"%", "r", "u", "l", "e", " ", "a", ":", " ", "%", "p", "r", "e", "c",
      " ", "b", " ">>,
    \* %rule f(X): %prec X 
    <<"%", "r", "u", "l", "e", " ", "f", "(", "X", ")", ":", " ", "%", "p",
      "r", "e", "c", " ", "X", " ">>,
    \* %prec 
    <<"%", "p", "r", "e", "c", " ">>,
    \* | 
    <<"|", " ">>,
    \* 'c' 
    <<"'", "c", "'", " ">>,
    \* %left 'c'\n%rule a: 'c'* 'c' ;\n
    <<"%", "l", "e", "f", "t", " ", "'", "c", "'", "\n", "%", "r", "u",
      "l", "e", " ", "a", ":", " ", "'", "c", "'", "*", " ", "'", "c", "'",
      " ", ";", "\n">> }

\* a name that a declaration defines and a rule defines again
DeclaredRulePhrases ==
    \* %token a\n
  { <<"%", "t", "o", "k", "e", "n", " ", "a", "\n">>,
    \* %type a\n
    <<"%", "t", "y", "p", "e", " ", "a", "\n">>,
    \* %nterm a\n
    <<"%", "n", "t", "e", "r", "m", " ", "a", "\n">>,
    \* %start a\n
    <<"%", "s", "t", "a", "r", "t", " ", "a", "\n">>,
    \* %%\n
    <<"%", "%", "\n">>,
    \* a: b ;\n
    <<"a", ":", " ", "b", " ", ";", "\n">> }

Profiles ==
  << RulePhrases, DeclarationPhrases, BlockPhrases, ParameterizedPhrases,
     OpenPhrases, CommentPhrases, DirectivePhrases, LiteralPhrases,
     NamespacePhrases, AliasPhrases, ValidatorPhrases,
     { ScenarioPhrases[i] : i \in 1 .. Len(ScenarioPhrases) },
     PrecPhrases, DeclaredRulePhrases >>


RECURSIVE Flatten(_)
Flatten(ss) == IF ss = <<>> THEN <<>> ELSE Head(ss) \o Flatten(Tail(ss))

Texts ==
  UNION { { Flatten(f) : f \in [1 .. n -> Profiles[p]] } :
            n \in 0 .. MaxPhrases, p \in 1 .. Len(Profiles) }

\* the documents that are queried: the texts of at most MaxLookupPhrases
\* phrases
MaxLookupPhrases == 2

LookupTexts ==
  UNION { { Flatten(f) : f \in [1 .. n -> Profiles[p]] } :
            n \in 0 .. MaxLookupPhrases, p \in 1 .. Len(Profiles) }

----------------------------------------------------------------------------
(* The pass: parse(text) *)

\* the documents the server holds
Uris == { "file:///a.y", "file:///b.y" }

Init ==
  /\ text \in Texts
  /\ lines = Split(text)
  /\ lineNum = 0
  /\ tokens = <<>>
  /\ currentTokenIndex = 0
  /\ section = "declarations"
  /\ pc = "tokenize"
  /\ frame = NoFrame
  /\ symbols = <<>>
  /\ parameterizedRules = <<>>
  /\ calls = <<>>
  /\ diagnostics = <<>>
  /\ previous = <<>>
  /\ position = <<>>
  /\ found = <<>>
  /\ startSymbol = <<>>
  /\ uri = <<>>
  /\ symbolTables = [u \in Uris |-> <<>>]
  /\ sent = [u \in Uris |-> <<>>]
  /\ changes = [u \in Uris |-> <<>>]
  /\ request = <<>>
  /\ answer = <<>>

\* tokenize: one iteration of the loop over the lines; after the last line
\* parse() sets the cursor to 0 and parseGrammar's loop starts (or, with no
\* token, ends at once)
Tokenize ==
  /\ pc = "tokenize"
  /\ lineNum < Len(lines)
  /\ tokens' = tokens \o ScanLine(text, lines[lineNum + 1], lineNum, 0)
  /\ lineNum' = lineNum + 1
  /\ pc' = IF lineNum' < Len(lines) THEN "tokenize"
           ELSE IF Len(tokens') > 0 THEN "parseGrammar"
           ELSE "validateSymbols"
  /\ currentTokenIndex' = IF lineNum' < Len(lines) THEN currentTokenIndex ELSE 0
  /\ UNCHANGED << text, lines, section, frame, symbols, parameterizedRules,
                  calls, diagnostics, previous, position, found, startSymbol >>
  /\ UNCHANGED serverVars

Assign(s) ==
  /\ currentTokenIndex' = s.idx
  /\ section' = s.section
  /\ pc' = s.pc
  /\ frame' = s.frame
  /\ symbols' = s.symbols
  /\ parameterizedRules' = s.parameterizedRules
  /\ calls' = s.calls
  /\ UNCHANGED << text, lines, lineNum, tokens, diagnostics, previous,
                  position, found, startSymbol >>
  /\ UNCHANGED serverVars

\* parseGrammar's loop: the four branches of one iteration
Separator ==
  /\ pc = "parseGrammar"
  /\ IsSeparator(Tok(currentTokenIndex))
  /\ Assign(Settle(SeparatorIter(State)))

Declaration ==
  /\ pc = "parseGrammar"
  /\ ~IsSeparator(Tok(currentTokenIndex))
  /\ section = "declarations"
  /\ Assign(Settle(ParseDeclaration(State)))

Rule ==
  /\ pc = "parseGrammar"
  /\ ~IsSeparator(Tok(currentTokenIndex))
  /\ section = "rules"
  /\ Assign(Settle(ParseRule(State)))

Epilogue ==
  /\ pc = "parseGrammar"
  /\ ~IsSeparator(Tok(currentTokenIndex))
  /\ section = "epilogue"
  /\ Assign(Settle(EpilogueIter(State)))

\* the loops of the sub-parsers, one iteration each
TokenDeclaration ==
  pc = "parseTokenDeclaration" /\ Assign(Settle(ParseTokenDeclarationIter(State)))

TypeDeclaration ==
  pc = "parseTypeDeclaration" /\ Assign(Settle(ParseTypeDeclarationIter(State)))

NtermDeclaration ==
  pc = "parseNtermDeclaration" /\ Assign(Settle(ParseNtermDeclarationIter(State)))

PrecedenceDeclaration ==
  /\ pc = "parsePrecedenceDeclaration"
  /\ Assign(Settle(ParsePrecedenceDeclarationIter(State)))

\* "Skip to opening brace" of parseUnionDeclaration
UnionSeek ==
  pc = "parseUnionDeclaration.seek" /\ Assign(Settle(Advance(State)))

UnionBlock ==
  /\ pc = "parseUnionDeclaration.block"
  /\ Assign(Settle(ParseUnionDeclarationIter(State)))

\* "Skip to opening brace" of parseCodeBlockDeclaration
CodeBlockSeek ==
  pc = "parseCodeBlockDeclaration" /\ Assign(Settle(Advance(State)))

SkipCodeBlock ==
  pc = "skipCodeBlock" /\ Assign(Settle(SkipCodeBlockIter(State)))

ParameterList ==
  /\ pc = "parseParameterizedRuleDeclaration"
  /\ Assign(Settle(ParameterListIter(State)))

RuleBody ==
  pc = "parseRuleBody" /\ Assign(Settle(ParseRuleBodyIter(State)))

ParameterizedRuleBody ==
  /\ pc = "parseParameterizedRuleBody"
  /\ Assign(Settle(ParseParameterizedRuleBodyIter(State)))

ArgumentList ==
  pc = "parseArgumentList" /\ Assign(Settle(ParseArgumentListIter(State)))

ArgumentListWithContext ==
  /\ pc = "parseArgumentListWithContext"
  /\ Assign(Settle(ParseArgumentListWithContextIter(State)))

SkipNamedReference ==
  pc = "skipNamedReference" /\ Assign(Settle(SkipNamedReferenceIter(State)))

SkipPrologue ==
  pc = "skipPrologue" /\ Assign(Settle(SkipPrologueIter(State)))

\* skipToEndOfLine's loop
SkipToEndOfLine ==
  pc = "skipToEndOfLine" /\ Assign(Settle(Advance(State)))

\* validateSymbols, and parse() returns
ValidateSymbols ==
  /\ pc = "validateSymbols"
  /\ diagnostics' = diagnostics \o Validate(symbols, parameterizedRules)
  /\ pc' = "done"
  /\ UNCHANGED << text, lines, lineNum, tokens, currentTokenIndex, section,
                  frame, symbols, parameterizedRules, calls, previous,
                  position, found, startSymbol >>
  /\ UNCHANGED serverVars

\* what parse() and getDiagnostics() hand out when a pass is over
Analysis ==
  [symbols |-> symbols, parameterizedRules |-> parameterizedRules,
   diagnostics |-> diagnostics]

\* a second pass that adds to the diagnostics of the first
ReparseKeepingDiagnostics ==
  /\ pc = "done"
  /\ previous' = << Analysis >>
  /\ symbols' = <<>>
  /\ parameterizedRules' = <<>>
  /\ calls' = <<>>
  /\ lines' = Split(text)
  /\ lineNum' = 0
  /\ tokens' = <<>>
  /\ section' = "declarations"
  /\ frame' = NoFrame
  /\ pc' = "tokenize"
  /\ startSymbol' = <<>>
  /\ UNCHANGED << text, currentTokenIndex, position, found, diagnostics >>
  /\ UNCHANGED serverVars

\* parse(text) is called again on the same parser with the same text: it
\* empties the diagnostics, takes a new SymbolTable, splits the text and
\* tokenize starts with its own empty list
Reparse ==
  /\ pc = "done"
  /\ previous' = << Analysis >>
  /\ diagnostics' = <<>>
  /\ symbols' = <<>>
  /\ parameterizedRules' = <<>>
  /\ calls' = <<>>
  /\ lines' = Split(text)
  /\ lineNum' = 0
  /\ tokens' = <<>>
  /\ section' = "declarations"
  /\ frame' = NoFrame
  /\ pc' = "tokenize"
  /\ startSymbol' = <<>>
  /\ UNCHANGED << text, currentTokenIndex, position, found >>
  /\ UNCHANGED serverVars

\* a request handler of the server looks up the symbol at a position of the
\* document whose table it has stored
SymbolAtPosition ==
  /\ pc = "done"
  /\ \E pos \in Positions :
       /\ position' = << pos >>
       /\ found' = GetSymbolAtPosition(symbols, parameterizedRules, pos)
  /\ UNCHANGED << text, lines, lineNum, tokens, currentTokenIndex, section, pc,
                  frame, symbols, parameterizedRules, calls, diagnostics,
                  previous, startSymbol >>
  /\ UNCHANGED serverVars

\* one analysis pass, step by step
Pass ==
  \/ Tokenize
  \/ Separator
  \/ Declaration
  \/ Rule
  \/ Epilogue
  \/ TokenDeclaration
  \/ TypeDeclaration
  \/ NtermDeclaration
  \/ PrecedenceDeclaration
  \/ UnionSeek
  \/ UnionBlock
  \/ CodeBlockSeek
  \/ SkipCodeBlock
  \/ ParameterList
  \/ RuleBody
  \/ ParameterizedRuleBody
  \/ ArgumentList
  \/ ArgumentListWithContext
  \/ SkipNamedReference
  \/ SkipPrologue
  \/ SkipToEndOfLine
  \/ ValidateSymbols

Next == Pass \/ Reparse

Spec == Init /\ [][Next]_vars

\* a document is analysed once and then queried
LookupInit ==
  /\ text \in LookupTexts
  /\ lines = Split(text)
  /\ lineNum = 0
  /\ tokens = <<>>
  /\ currentTokenIndex = 0
  /\ section = "declarations"
  /\ pc = "tokenize"
  /\ frame = NoFrame
  /\ symbols = <<>>
  /\ parameterizedRules = <<>>
  /\ calls = <<>>
  /\ diagnostics = <<>>
  /\ previous = <<>>
  /\ position = <<>>
  /\ found = <<>>
  /\ startSymbol = <<>>
  /\ uri = <<>>
  /\ symbolTables = [u \in Uris |-> <<>>]
  /\ sent = [u \in Uris |-> <<>>]
  /\ changes = [u \in Uris |-> <<>>]
  /\ request = <<>>
  /\ answer = <<>>

LookupNext == Pass \/ SymbolAtPosition

LookupSpec == LookupInit /\ [][LookupNext]_vars

----------------------------------------------------------------------------
(* The server: server.ts, the document store and the change handler *)

\* a grammar with a prologue, the declarations that the scenarios do not
\* have, a named reference and an epilogue:
\*   %{ a %}
\*   %debug a
\*   %union a { a { } }
\*   %type <t> a
\*   %nterm b
\*   %left 'c'
\*   %destructor a { } a
\*   %%
\*   a: b[n] ;
\*   %%
\*   x
DeclarationsGrammar ==
  <<"%", "{", " ", "a", " ", "%", "}", "\n", "%", "d", "e", "b", "u", "g",
    " ", "a", "\n", "%", "u", "n", "i", "o", "n", " ", "a", " ", "{", " ",
    "a", " ", "{", " ", "}", " ", "}", "\n", "%", "t", "y", "p", "e", " ",
    "<", "t", ">", " ", "a", "\n", "%", "n", "t", "e", "r", "m", " ", "b",
    "\n", "%", "l", "e", "f", "t", " ", "'", "c", "'", "\n", "%", "d", "e",
    "s", "t", "r", "u", "c", "t", "o", "r", " ", "a", " ", "{", " ", "}",
    " ", "a", "\n", "%", "%", "\n", "a", ":", " ", "b", "[", "n", "]", " ",
    ";", "\n", "%", "%", "\n", "x", "\n">>

\* the texts the documents take
ServerTexts == { ListGrammar, ExprGrammar, DeclarationsGrammar }

\* no document has changed yet: symbolTables is an empty Map
ServerInit ==
  /\ text = <<>>
  /\ lines = <<>>
  /\ lineNum = 0
  /\ tokens = <<>>
  /\ currentTokenIndex = 0
  /\ section = "declarations"
  /\ pc = "idle"
  /\ frame = NoFrame
  /\ symbols = <<>>
  /\ parameterizedRules = <<>>
  /\ calls = <<>>
  /\ diagnostics = <<>>
  /\ previous = <<>>
  /\ position = <<>>
  /\ found = <<>>
  /\ startSymbol = <<>>
  /\ uri = <<>>
  /\ symbolTables = [u \in Uris |-> <<>>]
  /\ sent = [u \in Uris |-> <<>>]
  /\ changes = [u \in Uris |-> <<>>]
  /\ request = <<>>
  /\ answer = <<>>

\* documents.onDidChangeContent -> validateTextDocument up to parser.parse:
\* getText(), the uri, new LramaParser() and the start of parse(text)
DidChangeContent ==
  /\ pc = "idle"
  /\ \E u \in Uris, t \in ServerTexts :
       /\ uri' = << u >>
       /\ changes' = [changes EXCEPT ![u] =
                        IF @ = <<>> THEN << t >> ELSE << t, @[1] >>]
       /\ text' = t
       /\ lines' = Split(t)
  /\ lineNum' = 0
  /\ tokens' = <<>>
  /\ currentTokenIndex' = 0
  /\ section' = "declarations"
  /\ pc' = "tokenize"
  /\ frame' = NoFrame
  /\ symbols' = <<>>
  /\ parameterizedRules' = <<>>
  /\ calls' = <<>>
  /\ diagnostics' = <<>>
  /\ previous' = <<>>
  /\ startSymbol' = <<>>
  /\ UNCHANGED << position, found, symbolTables, sent, request, answer >>

\* the SymbolTable that parse() returns
Table ==
  [symbols |-> symbols, parameterizedRules |-> parameterizedRules,
   startSymbol |-> startSymbol]

\* a store that adds the new table's entries to the table stored before
SetMerged ==
  /\ pc = "done"
  /\ uri # <<>>
  /\ LET stored == symbolTables[uri[1]]
     IN symbolTables' =
          [symbolTables EXCEPT ![uri[1]] =
             IF stored = <<>> THEN << Table >>
             ELSE << [Table EXCEPT !.symbols = stored[1].symbols \o symbols] >>]
  /\ sent' = [sent EXCEPT ![uri[1]] = << diagnostics >>]
  /\ pc' = "idle"
  /\ UNCHANGED << text, lines, lineNum, tokens, currentTokenIndex, section,
                  frame, symbols, parameterizedRules, calls, diagnostics,
                  previous, position, found, startSymbol, uri, changes,
                  request, answer >>

\* validateTextDocument after parser.parse: symbolTables.set(uri, symbolTable)
\* and connection.sendDiagnostics({uri, diagnostics: parser.getDiagnostics()})
Set ==
  /\ pc = "done"
  /\ uri # <<>>
  /\ symbolTables' = [symbolTables EXCEPT ![uri[1]] = << Table >>]
  /\ sent' = [sent EXCEPT ![uri[1]] = << diagnostics >>]
  /\ pc' = "idle"
  /\ UNCHANGED << text, lines, lineNum, tokens, currentTokenIndex, section,
                  frame, symbols, parameterizedRules, calls, diagnostics,
                  previous, position, found, startSymbol, uri, changes,
                  request, answer >>

ServerNext == DidChangeContent \/ Pass \/ Set

ServerSpec == ServerInit /\ [][ServerNext]_vars

\* what onReferences returns: null, or the locations
Null == [null |-> TRUE, locations |-> <<>>]

\* a Location literal
Location(u, range) == [uri |-> u, range |-> range]

\* an onReferences that always appends the definition
OnReferencesWithDeclaration(u, pos, includeDeclaration) ==
  IF symbolTables[u] = <<>> THEN Null
  ELSE LET match == GetSymbolAtPosition(symbolTables[u][1].symbols,
                                        symbolTables[u][1].parameterizedRules, pos)
       IN IF match = <<>> THEN Null
          ELSE LET symbol == match[1].symbol
                   listed == IF symbol.isParameterized
                             THEN symbol.parameterizedCalls
                             ELSE symbol.references
               IN [null |-> FALSE,
                   locations |->
                     [k \in 1 .. Len(listed) |-> Location(u, listed[k].range)]
                       \o (IF symbol.definition # <<>>
                           THEN << Location(u, symbol.definition[1].range) >>
                           ELSE <<>>)]

\* connection.onReferences(params): the returned value; the document of a
\* stored table is open
OnReferences(u, pos, includeDeclaration) ==
  IF symbolTables[u] = <<>> THEN Null
  ELSE LET match == GetSymbolAtPosition(symbolTables[u][1].symbols,
                                        symbolTables[u][1].parameterizedRules, pos)
       IN IF match = <<>> THEN Null
          ELSE LET symbol == match[1].symbol
                   listed == IF symbol.isParameterized
                             THEN symbol.parameterizedCalls
                             ELSE symbol.references
               IN [null |-> FALSE,
                   locations |->
                     [k \in 1 .. Len(listed) |-> Location(u, listed[k].range)]
                       \o (IF includeDeclaration /\ symbol.definition # <<>>
                           THEN << Location(u, symbol.definition[1].range) >>
                           ELSE <<>>)]

\* the references requests of one run
MaxRequests == 1

\* a references request arrives between two change events
References ==
  /\ pc = "idle"
  /\ Len(request) < MaxRequests
  /\ \E u \in Uris, pos \in Positions, includeDeclaration \in BOOLEAN :
       /\ request' = << [uri |-> u, position |-> pos,
                         includeDeclaration |-> includeDeclaration] >>
                         \o request
       /\ answer' = << OnReferences(u, pos, includeDeclaration) >>
  /\ UNCHANGED << text, lines, lineNum, tokens, currentTokenIndex, section, pc,
                  frame, symbols, parameterizedRules, calls, diagnostics,
                  previous, position, found, startSymbol, uri, symbolTables,
                  sent, changes >>

\* the change event of one document is being handled
ReferencesInit ==
  /\ text \in LookupTexts
  /\ lines = Split(text)
  /\ lineNum = 0
  /\ tokens = <<>>
  /\ currentTokenIndex = 0
  /\ section = "declarations"
  /\ pc = "tokenize"
  /\ frame = NoFrame
  /\ symbols = <<>>
  /\ parameterizedRules = <<>>
  /\ calls = <<>>
  /\ diagnostics = <<>>
  /\ previous = <<>>
  /\ position = <<>>
  /\ found = <<>>
  /\ startSymbol = <<>>
  /\ \E u \in Uris :
       /\ uri = << u >>
       /\ changes = [v \in Uris |-> IF v = u THEN << text >> ELSE <<>>]
  /\ symbolTables = [u \in Uris |-> <<>>]
  /\ sent = [u \in Uris |-> <<>>]
  /\ request = <<>>
  /\ answer = <<>>

ReferencesNext == Pass \/ Set \/ References

\* one document is analysed and stored, then references are requested
ReferencesSpec == ReferencesInit /\ [][ReferencesNext]_vars

----------------------------------------------------------------------------
(* The claims *)

SeqMin(S) == CHOOSE i \in S : \A j \in S : i <= j

\* the positions in the call history of the calls of `op` on `name`
CallsOn(op, name) ==
  { i \in 1 .. Len(calls) : calls[i].op = op /\ calls[i].name = name }

\* the references addReference was called with for `name`, in call order
ReferencesRecorded(name) ==
  LET OnName(c) == c.op = "addReference" /\ c.name = name
      sel == SelectSeq(calls, OnName)
  IN [k \in 1 .. Len(sel) |-> [range |-> sel[k].range]]

\* `name` was referenced before its first defining occurrence
ForwardReferenced(name) ==
  /\ CallsOn("addSymbol", name) # {}
  /\ CallsOn("addReference", name) # {}
  /\ SeqMin(CallsOn("addReference", name)) < SeqMin(CallsOn("addSymbol", name))

NamesCalled == { calls[i].name : i \in 1 .. Len(calls) }

\* C1: a name of the plain namespace that was referenced before its first
\* defining occurrence has, from that occurrence on and so at the end of the
\* pass, the definition of that first defining occurrence, and its reference
\* list is exactly the references recorded for it before and after the
\* definition, in the order recorded.
C1_ForwardReferenceMerge ==
  \A name \in NamesCalled :
    ForwardReferenced(name) =>
      LET first == calls[SeqMin(CallsOn("addSymbol", name))]
      IN /\ Has(symbols, name)
         /\ Get(symbols, name).definition =
              << [range |-> first.range, nameRange |-> first.range] >>
         /\ Get(symbols, name).references = ReferencesRecorded(name)

\* a pass has ended with a name referenced before its definition and again
\* after it
C1_Witness ==
  /\ pc = "validateSymbols"
  /\ \E name \in NamesCalled :
       /\ ForwardReferenced(name)
       /\ \E i \in CallsOn("addReference", name) :
            i > SeqMin(CallsOn("addSymbol", name))

\* C2: in both namespaces a definition, once present, is never changed by a
\* later step of the pass.
C2_DefinitionSetOnce ==
  [][ (pc # "done") =>
        /\ \A i \in 1 .. Len(symbols) :
             symbols[i].definition # <<>> =>
               symbols'[i].definition = symbols[i].definition
        /\ \A i \in 1 .. Len(parameterizedRules) :
             parameterizedRules[i].definition # <<>> =>
               parameterizedRules'[i].definition = parameterizedRules[i].definition
    ]_vars

SectionRank(sec) ==
  CASE sec = "declarations" -> 0 [] sec = "rules" -> 1 [] sec = "epilogue" -> 2

\* C3: every step of a pass leaves the section where it is or moves it one
\* section forward: never back, never from declarations to epilogue, never
\* out of epilogue.
C3_SectionOnlyForward ==
  [][ (pc # "done") =>
        SectionRank(section') \in { SectionRank(section), SectionRank(section) + 1 }
    ]_vars

SeparatorTokens == { i \in 1 .. Len(tokens) : IsSeparator(tokens[i]) }

\* a pass has ended in the epilogue after a third separator
C3_Witness ==
  /\ pc = "validateSymbols"
  /\ section = "epilogue"
  /\ Cardinality(SeparatorTokens) >= 3

\* C4: at the end of the pass the section is given by the number of
\* separator tokens of the token sequence: declarations for none, rules for
\* one, epilogue for two or more.
C4_SectionCountsSeparators ==
  pc = "validateSymbols" =>
    section = CASE Cardinality(SeparatorTokens) = 0 -> "declarations"
                [] Cardinality(SeparatorTokens) = 1 -> "rules"
                [] OTHER -> "epilogue"

\* C5: a step of a pass taken in the epilogue section leaves both maps of
\* the symbol table unchanged.
C5_EpilogueLeavesTable ==
  [][ (section = "epilogue" /\ pc # "done") =>
        /\ symbols' = symbols
        /\ parameterizedRules' = parameterizedRules ]_vars

\* the parser has consumed `name :` in the epilogue
C5_Witness ==
  /\ section = "epilogue"
  /\ currentTokenIndex >= 2
  /\ Tok(currentTokenIndex - 2).type = "IDENTIFIER"
  /\ IsSpecial(currentTokenIndex - 1, ":")

ParserLoops ==
  DeclarationLoops \cup
  {"parseGrammar", "parseUnionDeclaration.seek", "parseUnionDeclaration.block",
   "parseCodeBlockDeclaration", "skipCodeBlock",
   "parseParameterizedRuleDeclaration", "parseRuleBody",
   "parseParameterizedRuleBody", "parseArgumentList",
   "parseArgumentListWithContext", "skipNamedReference", "skipPrologue",
   "skipToEndOfLine"}

\* C6: the parse terminates with the cursor at the end: every iteration of
\* the top-level loop and of the sub-parser and skipping loops strictly
\* increases the cursor, the cursor never exceeds the number of tokens, a loop
\* that has not ended can always take its next iteration, and when
\* parseGrammar has returned the cursor equals the number of tokens.
C6_CursorAdvancesToEnd ==
  /\ [][ (pc \in ParserLoops) => currentTokenIndex' > currentTokenIndex ]_vars
  /\ [](pc # "tokenize" => currentTokenIndex <= Len(tokens))
  /\ [](pc \in ParserLoops => currentTokenIndex < Len(tokens) /\ ENABLED Next)
  /\ [](pc = "validateSymbols" => currentTokenIndex = Len(tokens))

\* a pass over a malformed text has ended: the rules section ends inside the
\* argument list of a call that is never closed
C6_Witness ==
  /\ pc = "validateSymbols"
  /\ section = "rules"
  /\ Len(tokens) >= 2
  /\ IsSpecial(Len(tokens) - 1, "(")
  /\ IsType(Len(tokens) - 2, "IDENTIFIER")

\* the source text a token was made from
TokenText(t) ==
  IF t.type = "TYPE_TAG" THEN <<"<">> \o t.value \o <<">">> ELSE t.value

\* C7: every token lies within one line of the text and its span
\* [column, column + length) holds exactly the text it was made from (the
\* token's value, or '<' value '>' for a type tag); consecutive tokens are in
\* (line, column) order and do not overlap.
C7_TokensOrderedExact ==
  /\ \A i \in 1 .. Len(tokens) :
       LET t == tokens[i]
       IN /\ t.line \in 0 .. (Len(lines) - 1)
          /\ t.column >= 0
          /\ t.length >= 1
          /\ t.column + t.length <= Len(lines[t.line + 1])
          /\ SubSeq(lines[t.line + 1], t.column + 1, t.column + t.length)
               = TokenText(t)
  /\ \A i \in 1 .. (Len(tokens) - 1) :
       \/ tokens[i].line < tokens[i + 1].line
       \/ /\ tokens[i].line = tokens[i + 1].line
          /\ tokens[i].column + tokens[i].length <= tokens[i + 1].column

\* a text of two lines or more has been scanned into tokens that include a
\* type tag, a string and a character literal
C7_Witness ==
  /\ pc # "tokenize"
  /\ \E i, j, k, l \in 1 .. Len(tokens) :
       /\ tokens[i].type = "TYPE_TAG"
       /\ tokens[j].type = "STRING"
       /\ tokens[k].type = "CHARACTER"
       /\ tokens[l].line > tokens[i].line

\* C8: where the scanner meets a block-comment open with no close later on
\* the same line, no token of the line starts at or after the open; where a
\* close follows on the line, no token starts between the open and the end of
\* the close, and scanning resumes right after the close.
C8_BlockCommentRule ==
  \A ln \in 0 .. (lineNum - 1) :
    LET line == lines[ln + 1]
        met == ScanColumns(text, line, ln, 0)
    IN \A c \in met :
         Substr(line, c, 2) = <<"/", "*">> =>
           LET localEnd == IndexOf(line, <<"*", "/">>, c + 2)
           IN IF localEnd = -1
              THEN \A i \in 1 .. Len(tokens) :
                     ~(tokens[i].line = ln /\ tokens[i].column >= c)
              ELSE /\ \A i \in 1 .. Len(tokens) :
                        ~(/\ tokens[i].line = ln
                          /\ tokens[i].column >= c
                          /\ tokens[i].column < localEnd + 2)
                   /\ localEnd + 2 < Len(line) => (localEnd + 2) \in met

\* C9: a directive token holds the longest recognized spelling that the text
\* after its '%' starts with.
C9_LongestDirectiveSpelling ==
  \A i \in 1 .. Len(tokens) :
    tokens[i].type = "DIRECTIVE" =>
      LET after == From(lines[tokens[i].line + 1], tokens[i].column + 1)
      IN \A k \in 1 .. Len(DirectiveSpellings) :
           StartsWith(after, DirectiveSpellings[k]) =>
             Len(DirectiveSpellings[k]) + 1 <= tokens[i].length

\* C10: a directive token is made only where the identifier-shaped word after
\* the '%' is exactly one of the recognized spellings.
C10_DirectiveOnlyForRecognizedWord ==
  \A i \in 1 .. Len(tokens) :
    tokens[i].type = "DIRECTIVE" =>
      LET word == IdentMatch(From(lines[tokens[i].line + 1], tokens[i].column + 1))
      IN \E k \in 1 .. Len(DirectiveSpellings) : DirectiveSpellings[k] = word

\* position p is before position q in the document
Before(p, q) ==
  p.line < q.line \/ (p.line = q.line /\ p.character < q.character)

\* the half-open range [start, end) contains the position
Contains(range, p) == ~Before(p, range.start) /\ Before(p, range.end)

\* the entity has a range of the priority class that contains the position:
\* 4 parameterized-rule definition, 3 parameterized call, 2 plain definition,
\* 1 plain reference
HasRangeAt(map, symbol, class, p) ==
  CASE class = 4 -> /\ map = "parameterizedRules"
                    /\ symbol.definition # <<>>
                    /\ Contains(symbol.definition[1].nameRange, p)
    [] class = 3 -> /\ map = "parameterizedRules"
                    /\ \E k \in 1 .. Len(symbol.parameterizedCalls) :
                         Contains(symbol.parameterizedCalls[k].range, p)
    [] class = 2 -> /\ map = "symbols"
                    /\ symbol.definition # <<>>
                    /\ Contains(symbol.definition[1].nameRange, p)
    [] class = 1 -> /\ map = "symbols"
                    /\ \E k \in 1 .. Len(symbol.references) :
                         Contains(symbol.references[k].range, p)

\* the priority classes that have a range containing the position
ClassesAt(p) ==
  { class \in 1 .. 4 :
      \/ \E i \in 1 .. Len(parameterizedRules) :
           HasRangeAt("parameterizedRules", parameterizedRules[i], class, p)
      \/ \E i \in 1 .. Len(symbols) :
           HasRangeAt("symbols", symbols[i], class, p) }

\* C11: a lookup returns nothing exactly when no definition, reference or
\* call range contains the position, and else returns an entity that has a
\* range of the highest priority class among the classes with a range
\* containing the position.
C11_LookupPriority ==
  position # <<>> =>
    LET p == position[1]
    IN IF ClassesAt(p) = {}
       THEN found = <<>>
       ELSE /\ found # <<>>
            /\ HasRangeAt(found[1].map, found[1].symbol,
                          CHOOSE c \in ClassesAt(p) :
                            \A d \in ClassesAt(p) : d <= c,
                          p)

\* C12: a lookup resolves a position to an entity only through a range
\* [start, end) of that entity with start <= position < end; a position
\* equal to the end of a range does not resolve through that range.
C12_HalfOpenContainment ==
  (position # <<>> /\ found # <<>>) =>
    \E class \in 1 .. 4 :
      HasRangeAt(found[1].map, found[1].symbol, class, position[1])

\* the ranges addParameterizedCall was called with for `name`, in call order
CallsRecorded(name) ==
  LET OnName(c) == c.op = "addParameterizedCall" /\ c.name = name
      sel == SelectSeq(calls, OnName)
  IN [k \in 1 .. Len(sel) |-> sel[k].range]

\* the names that have a definition in both maps
DefinedInBoth ==
  { symbols[i].name : i \in { j \in 1 .. Len(symbols) :
      /\ symbols[j].definition # <<>>
      /\ Has(parameterizedRules, symbols[j].name)
      /\ Get(parameterizedRules, symbols[j].name).definition # <<>> } }

Names(seq) == { seq[k] : k \in 1 .. Len(seq) }

\* the addReference calls made from the body of a parameterized rule for a
\* name that is one of the rule's own formal parameters
ShadowedReferences ==
  { k \in 1 .. Len(calls) :
      /\ calls[k].op = "addReference"
      /\ calls[k].body = "parseParameterizedRuleBody"
      /\ calls[k].name \in Names(calls[k].scope) }

\* C14: in the body of a parameterized rule no occurrence of one of the
\* rule's own formal parameters adds a reference to the plain namespace (so
\* that no diagnostic can be reported at such an occurrence).
C14_ParameterShadowing == ShadowedReferences = {}

\* the token indexes i (from 1) of an alias: tokens i-2 .. i+1 read
\* name [ alias ]
AliasTokens ==
  { i \in 3 .. Len(tokens) - 1 :
      /\ tokens[i].type = "IDENTIFIER"
      /\ tokens[i - 2].type = "IDENTIFIER"
      /\ tokens[i - 1].type = "SPECIAL" /\ tokens[i - 1].value = << "[" >>
      /\ tokens[i + 1].type = "SPECIAL" /\ tokens[i + 1].value = << "]" >> }

\* the SymbolTable calls made from a rule body at the range of token i
BodyCallsAt(i) ==
  { k \in 1 .. Len(calls) :
      calls[k].body # "" /\ calls[k].range = CreateRange(tokens[i]) }

\* C15: for an occurrence name[alias] no rule body registers anything at the
\* alias, and at most one reference or call at the name.
C15_BracketAliasing ==
  \A i \in AliasTokens :
    /\ BodyCallsAt(i) = {}
    /\ Cardinality(BodyCallsAt(i - 2)) <= 1

\* the token indexes i (from 1) of an alias that directly follows a
\* character literal or the closing brace of an action block
AliasAfterLiteralOrAction ==
  { i \in 3 .. Len(tokens) - 1 :
      /\ tokens[i].type = "IDENTIFIER"
      /\ \/ tokens[i - 2].type = "CHARACTER"
         \/ tokens[i - 2].type = "SPECIAL" /\ tokens[i - 2].value = << "}" >>
      /\ tokens[i - 1].type = "SPECIAL" /\ tokens[i - 1].value = << "[" >>
      /\ tokens[i + 1].type = "SPECIAL" /\ tokens[i + 1].value = << "]" >> }

\* C16: in a rule body a bracketed alias that directly follows a character
\* literal or an action block is skipped: nothing is registered at the alias.
C16_AliasAfterLiteralOrAction ==
  \A i \in AliasAfterLiteralOrAction : BodyCallsAt(i) = {}

\* the formal parameters declared by the %rule declarations of the document
DeclaredParameters ==
  UNION { Names(calls[k].scope) :
            k \in { j \in 1 .. Len(calls) :
                      calls[j].op = "addParameterizedRuleDefinition" } }

\* the name matches an exclusion of the undefined-symbol check
Excluded(name) ==
  \/ IsBuiltinFunction(name)
  \/ IsLikelyToken(name)
  \/ IsCharacterLiteral(name)
  \/ name \in DeclaredParameters
  \/ IsCommonParameter(name)

\* the undefined-symbol warnings that are due: one for each reference of an
\* entity without definition whose name matches no exclusion
DueWarnings ==
  LET all == GetAllSymbols(symbols, parameterizedRules)
  IN UNION { { Diagnostic(all[i].references[k].range,
                          << "Symbol '", all[i].name, "' is not defined" >>,
                          "Warning") : k \in 1 .. Len(all[i].references) } :
               i \in { j \in 1 .. Len(all) : /\ all[j].definition = <<>>
                                             /\ ~Excluded(all[j].name) } }

\* C17: after the pass the warnings are exactly the due ones, each reported
\* once.
C17_UndefinedWarningsExact ==
  pc = "done" =>
    /\ \A w \in DueWarnings :
         Cardinality({ d \in 1 .. Len(diagnostics) : diagnostics[d] = w }) = 1
    /\ \A d \in 1 .. Len(diagnostics) :
         diagnostics[d].severity = "Warning" => diagnostics[d] \in DueWarnings

\* the unused-rule informations that are due: one for each entity of the
\* plain namespace of kind rule with a definition, no reference and no call,
\* whose name is not a character literal
DueInformations ==
  { Diagnostic(symbols[i].definition[1].nameRange,
               << "Rule '", symbols[i].name, "' is defined but never used" >>,
               "Information") :
      i \in { j \in 1 .. Len(symbols) :
                /\ symbols[j].type = SymbolType.Rule
                /\ symbols[j].definition # <<>>
                /\ symbols[j].references = <<>>
                /\ symbols[j].parameterizedCalls = <<>>
                /\ ~IsCharacterLiteral(symbols[j].name) } }

\* a diagnostic is an undefined-symbol warning at a reference of the symbol
\* it names
IsUndefinedWarning(diagnostic) ==
  /\ diagnostic.severity = "Warning"
  /\ \E i \in 1 .. Len(symbols) :
       /\ diagnostic.message = << "Symbol '", symbols[i].name, "' is not defined" >>
       /\ \E k \in 1 .. Len(symbols[i].references) :
            symbols[i].references[k].range = diagnostic.range

\* C18: after the pass the information diagnostics are exactly the due
\* unused-rule ones, each reported once, and every diagnostic is an
\* unused-rule information or an undefined-symbol warning.
C18_UnusedInformationsExact ==
  pc = "done" =>
    /\ \A u \in DueInformations :
         Cardinality({ d \in 1 .. Len(diagnostics) : diagnostics[d] = u }) = 1
    /\ \A d \in 1 .. Len(diagnostics) :
         \/ diagnostics[d] \in DueInformations
         \/ IsUndefinedWarning(diagnostics[d])

\* a pass has ended with an unused-rule information, a warning and a rule
\* that is used
C18_Witness ==
  /\ pc = "done"
  /\ DueInformations # {}
  /\ \E d \in 1 .. Len(diagnostics) : diagnostics[d].severity = "Warning"
  /\ \E i \in 1 .. Len(symbols) :
       /\ symbols[i].type = SymbolType.Rule
       /\ symbols[i].definition # <<>>
       /\ symbols[i].references # <<>>

\* the reserved token names
ReservedTokens ==
  { <<"e", "r", "r", "o", "r">>,
    <<"Y", "Y", "E", "O", "F">>,
    <<"Y", "Y", "U", "N", "D", "E", "F">> }

\* C19: no undefined-symbol warning is reported for a reserved token name.
C19_ReservedTokensExempt ==
  \A d \in 1 .. Len(diagnostics) :
    diagnostics[d].severity = "Warning" =>
      \A name \in ReservedTokens :
        diagnostics[d].message # << "Symbol '", name, "' is not defined" >>

\* C20: a pass over the text a pass has already analysed ends with the same
\* symbols, parameterized rules and diagnostics as the pass before it: the
\* same entities in the same order with the same kinds, definitions,
\* references and calls, and the same list of diagnostics, none of them left
\* from the pass before.
C20_AnalysisIdempotent ==
  (pc = "done" /\ previous # <<>>) => Analysis = previous[1]

\* a second pass has ended with entities in both namespaces, references,
\* calls and diagnostics
C20_Witness ==
  /\ pc = "done"
  /\ previous # <<>>
  /\ \E d \in 1 .. Len(diagnostics) : diagnostics[d].severity = "Warning"
  /\ \E d \in 1 .. Len(diagnostics) : diagnostics[d].severity = "Information"
  /\ \E i \in 1 .. Len(symbols) : Len(symbols[i].references) >= 2
  /\ \E i \in 1 .. Len(parameterizedRules) :
       parameterizedRules[i].parameterizedCalls # <<>>

\* the argument lists of the calls recorded on an entity, in order
ArgumentsOf(symbol) ==
  [k \in 1 .. Len(symbol.parameterizedCalls) |->
     symbol.parameterizedCalls[k].arguments]

\* C21 as stated: the pass over ListGrammar ends with a parameterized entity
\* list with parameters [X], no reference to X, one reference to stmt, and
\* exactly one call recorded on list, with arguments [stmt].
C21_ListScenarioOneCall ==
  (pc = "done" /\ text = ListGrammar) =>
    /\ Has(parameterizedRules, <<"l", "i", "s", "t">>)
    /\ LET list == Get(parameterizedRules, <<"l", "i", "s", "t">>)
       IN /\ list.isParameterized
          /\ list.definition # <<>>
          /\ list.parameters = << << <<"X">> >> >>
          /\ ArgumentsOf(list) = << << <<"s", "t", "m", "t">> >> >>
    /\ ReferencesRecorded(<<"X">>) = <<>>
    /\ ~Has(symbols, <<"X">>)
    /\ Len(Get(symbols, <<"s", "t", "m", "t">>).references) = 1

\* C21 amended: as above, but two calls are recorded on list: the call
\* list(X) of its own body, with arguments [X], and the call of prog, with
\* arguments [stmt].
C21_ListScenario ==
  (pc = "done" /\ text = ListGrammar) =>
    /\ Has(parameterizedRules, <<"l", "i", "s", "t">>)
    /\ LET list == Get(parameterizedRules, <<"l", "i", "s", "t">>)
       IN /\ list.isParameterized
          /\ list.definition # <<>>
          /\ list.parameters = << << <<"X">> >> >>
          /\ ArgumentsOf(list) = << << <<"X">> >>, << <<"s", "t", "m", "t">> >> >>
    /\ ReferencesRecorded(<<"X">>) = <<>>
    /\ ~Has(symbols, <<"X">>)
    /\ Has(symbols, <<"s", "t", "m", "t">>)
    /\ Len(Get(symbols, <<"s", "t", "m", "t">>).references) = 1

\* the pass over ListGrammar has ended
C21_Witness == pc = "done" /\ text = ListGrammar

\* C22: the pass over ExprGrammar ends with exactly two entities, both in
\* the plain namespace: NUM, a token with a definition and one reference, and
\* expr, a rule with a definition and two references; and with no diagnostic.
C22_ExprScenario ==
  (pc = "done" /\ text = ExprGrammar) =>
    /\ parameterizedRules = <<>>
    /\ Len(symbols) = 2
    /\ Has(symbols, <<"N", "U", "M">>)
    /\ Has(symbols, <<"e", "x", "p", "r">>)
    /\ LET NUM == Get(symbols, <<"N", "U", "M">>)
           expr == Get(symbols, <<"e", "x", "p", "r">>)
       IN /\ NUM.type = SymbolType.Token
          /\ NUM.definition # <<>>
          /\ Len(NUM.references) = 1
          /\ expr.type = SymbolType.Rule
          /\ expr.definition # <<>>
          /\ Len(expr.references) = 2
    /\ diagnostics = <<>>

\* the pass over ExprGrammar has ended
C22_Witness == pc = "done" /\ text = ExprGrammar

\* the names parseStartDeclaration has declared as start symbol, in order
StartDeclared ==
  LET IsStart(c) == c.op = "addSymbol" /\ c.type = SymbolType.Start
      sel == SelectSeq(calls, IsStart)
  IN [k \in 1 .. Len(sel) |-> sel[k].name]

\* C24: after the pass the table's start symbol is a name a %start
\* declaration has declared, and it is undefined only when there is no such
\* declaration.
C24_StartSymbolTracked ==
  pc = "done" =>
    IF StartDeclared = <<>>
    THEN startSymbol = <<>>
    ELSE /\ startSymbol # <<>>
         /\ startSymbol[1] \in Names(StartDeclared)

\* the position of the first character of a token
StartOf(token) == [line |-> token.line, character |-> token.column]

\* the token indexes (from 1) of the opening parenthesis of the recorded call
OpeningOf(call) ==
  { i \in 2 .. Len(tokens) :
      /\ StartOf(tokens[i - 1]) = call.range.start
      /\ tokens[i].type = "SPECIAL" /\ tokens[i].value = << "(" >> }

\* C25: the range recorded for a call starts at the first character of the
\* name and includes the parenthesis that opens the argument list.
C25_FullCallRange ==
  \A e \in 1 .. Len(parameterizedRules) :
    \A k \in 1 .. Len(parameterizedRules[e].parameterizedCalls) :
      LET call == parameterizedRules[e].parameterizedCalls[k]
      IN /\ OpeningOf(call) # {}
         /\ \A i \in OpeningOf(call) : Contains(call.range, StartOf(tokens[i]))

\* the token indexes i (from 1) of an identifier directly followed by an
\* opening parenthesis
CallHeads ==
  { i \in 1 .. Len(tokens) - 1 :
      /\ tokens[i].type = "IDENTIFIER"
      /\ tokens[i + 1].type = "SPECIAL" /\ tokens[i + 1].value = << "(" >> }

\* C26: whatever a rule body registers at an identifier directly followed by
\* an opening parenthesis is a parameterized call, never a reference, also
\* when the identifier stands in the argument list of another call.
C26_CallsAreCalls ==
  \A i \in CallHeads :
    \A k \in BodyCallsAt(i) : calls[k].op = "addParameterizedCall"

\* token i (from 1) is an opening or closing parenthesis
IsParen(i, ch) == tokens[i].type = "SPECIAL" /\ tokens[i].value = << ch >>

\* token i stands alone as an argument: an identifier or character literal
\* that is neither the name of a nested call nor a bracketed alias
IsArgument(i) ==
  /\ tokens[i].type \in {"IDENTIFIER", "CHARACTER"}
  /\ ~(i < Len(tokens) /\ IsParen(i + 1, "("))
  /\ ~IsParen(i - 1, "[")

\* the token indexes of the arguments of the argument list that is read from
\* token i on at parenthesis depth `depth`, in source order
RECURSIVE ArgumentTokens(_, _)
ArgumentTokens(i, depth) ==
  IF i > Len(tokens) \/ depth = 0 THEN <<>>
  ELSE IF IsParen(i, "(") THEN ArgumentTokens(i + 1, depth + 1)
  ELSE IF IsParen(i, ")") THEN ArgumentTokens(i + 1, depth - 1)
  ELSE IF depth = 1 /\ IsArgument(i) THEN << i >> \o ArgumentTokens(i + 1, depth)
  ELSE ArgumentTokens(i + 1, depth)

\* the recorded call of the history entry k
RecordedCall(k) ==
  LET symbol == Get(parameterizedRules, calls[k].name)
  IN symbol.parameterizedCalls[
       CHOOSE j \in 1 .. Len(symbol.parameterizedCalls) :
         symbol.parameterizedCalls[j].range = calls[k].range]

\* C27: the argument names recorded for a call are its identifier and
\* character-literal arguments in source order; an identifier argument that
\* is not a parameter in scope has exactly one reference recorded at its
\* range, an argument that is a parameter in scope has none.
C27_ArgumentsRecorded ==
  \A k \in 1 .. Len(calls) :
    calls[k].op = "addParameterizedCall" =>
      \A i \in OpeningOf(calls[k]) :
        LET arguments == ArgumentTokens(i + 1, 1)
        IN /\ RecordedCall(k).arguments =
                [a \in 1 .. Len(arguments) |-> tokens[arguments[a]].value]
           /\ \A a \in 1 .. Len(arguments) :
                LET j == arguments[a]
                    recorded == { r \in BodyCallsAt(j) : calls[r].op = "addReference" }
                IN tokens[j].type = "IDENTIFIER" =>
                     Cardinality(recorded) =
                       IF tokens[j].value \in Names(calls[k].scope) THEN 0 ELSE 1

\* the token indexes (from 1) of the names a %rule declaration declares at
\* the range: the token after %rule, or after %rule %inline
RuleNamesAt(range) ==
  { n \in 2 .. Len(tokens) :
      /\ CreateRange(tokens[n]) = range
      /\ tokens[n].type = "IDENTIFIER"
      /\ \/ tokens[n - 1].type = "DIRECTIVE" /\ tokens[n - 1].value = D_rule
         \/ /\ n > 2
            /\ tokens[n - 1].type = "DIRECTIVE" /\ tokens[n - 1].value = D_inline
            /\ tokens[n - 2].type = "DIRECTIVE" /\ tokens[n - 2].value = D_rule }

\* the identifiers from token i on up to the first closing parenthesis
RECURSIVE ListedParameters(_)
ListedParameters(i) ==
  IF i > Len(tokens) \/ IsParen(i, ")") THEN <<>>
  ELSE IF tokens[i].type = "IDENTIFIER"
  THEN << tokens[i].value >> \o ListedParameters(i + 1)
  ELSE ListedParameters(i + 1)

\* the step has made exactly the SymbolTable call `op` and it is about a
\* name that a %rule declaration declares
RuleDeclarationStep(op) ==
  /\ Len(calls') = Len(calls) + 1
  /\ calls'[Len(calls')].op = op
  /\ RuleNamesAt(calls'[Len(calls')].range) # {}

\* the step of a %rule declaration with a parameter list: the entity is in
\* the parameterized namespace with its parameters, the plain one is untouched
ParameterizedRouted ==
  RuleDeclarationStep("addParameterizedRuleDefinition") =>
    LET call == calls'[Len(calls')]
    IN /\ \A n \in RuleNamesAt(call.range) :
            /\ IsParen(n + 1, "(")
            /\ Has(parameterizedRules', call.name)
            /\ Get(parameterizedRules', call.name).isParameterized
            /\ Get(parameterizedRules', call.name).parameters =
                 << ListedParameters(n + 2) >>
       /\ symbols' = symbols

\* the step of a %rule declaration without a parameter list: the entity is
\* in the plain namespace without parameters, the parameterized one is
\* untouched; `always` asks for the kind rule whatever was stored before
PlainRouted(always) ==
  (RuleDeclarationStep("addSymbol") /\ calls'[Len(calls')].type = SymbolType.Rule) =>
    LET call == calls'[Len(calls')]
        defined == Has(symbols, call.name) /\ Get(symbols, call.name).definition # <<>>
    IN /\ \A n \in RuleNamesAt(call.range) :
            /\ ~(n < Len(tokens) /\ IsParen(n + 1, "("))
            /\ Has(symbols', call.name)
            /\ Get(symbols', call.name).parameters = <<>>
            /\ ~Get(symbols', call.name).isParameterized
            /\ (always \/ ~defined) =>
                 Get(symbols', call.name).type = SymbolType.Rule
       /\ parameterizedRules' = parameterizedRules

\* C28 as stated: a %rule declaration without a parameter list always leaves
\* the plain entity with the kind rule.
C28_RuleAlwaysKindRule ==
  [][ ParameterizedRouted /\ PlainRouted(TRUE) ]_vars

\* C28: a %rule declaration with a parameter list stores the entity in the
\* parameterized namespace only, flagged parameterized and with the listed
\* parameter names in order; one without a list stores it in the plain
\* namespace only, without parameters, and with the kind rule when the name
\* had no plain definition before.
C28_RuleRouted ==
  [][ ParameterizedRouted /\ PlainRouted(FALSE) ]_vars

\* both forms have been declared, the parameterized one with %inline
C28_Witness ==
  /\ \E k \in 1 .. Len(calls) :
       /\ calls[k].op = "addParameterizedRuleDefinition"
       /\ \E n \in RuleNamesAt(calls[k].range) : tokens[n - 1].value = D_inline
  /\ \E k \in 1 .. Len(calls) :
       /\ calls[k].op = "addSymbol" /\ calls[k].type = SymbolType.Rule
       /\ RuleNamesAt(calls[k].range) # {}

\* the symbols listed by precedence declarations: the addSymbol calls of
\* kind token at an identifier or character literal that follows %left,
\* %right, %nonassoc or %precedence with only listed symbols in between
RECURSIVE PrecedenceListed(_)
PrecedenceListed(j) ==
  /\ j > 1
  /\ tokens[j].type \in {"IDENTIFIER", "CHARACTER"}
  /\ \/ /\ tokens[j - 1].type = "DIRECTIVE"
        /\ tokens[j - 1].value \in {D_left, D_right, D_nonassoc, D_precedence}
     \/ PrecedenceListed(j - 1)

PrecedenceCalls ==
  { k \in 1 .. Len(calls) :
      /\ calls[k].op = "addSymbol" /\ calls[k].type = SymbolType.Token
      /\ \E j \in 1 .. Len(tokens) :
           PrecedenceListed(j) /\ CreateRange(tokens[j]) = calls[k].range }

\* C29: the loop of a precedence declaration reads every token up to the
\* next directive, separator or prologue start; each identifier or character
\* literal it reads is from then on, and so at the end of the pass, a plain
\* entity with a definition, and when the name had no earlier definition the
\* definition is the range of that occurrence and the kind is token.
C29_PrecedenceDefinesTokens ==
  /\ [][ (pc = "parsePrecedenceDeclaration") =>
           LET token == tokens[currentTokenIndex + 1]
               name == token.value
               defined == Has(symbols, name) /\ Get(symbols, name).definition # <<>>
           IN /\ currentTokenIndex' = currentTokenIndex + 1
              /\ (pc' # pc) =>
                   \/ currentTokenIndex' >= Len(tokens)
                   \/ IsEndOfDeclaration(tokens[currentTokenIndex' + 1])
              /\ token.type \in {"IDENTIFIER", "CHARACTER"} =>
                   /\ Has(symbols', name)
                   /\ Get(symbols', name).definition # <<>>
                   /\ ~defined =>
                        /\ Get(symbols', name).definition = << Definition(token) >>
                        /\ Get(symbols', name).type = SymbolType.Token
     ]_vars
  /\ [](\A k \in PrecedenceCalls :
          /\ Has(symbols, calls[k].name)
          /\ Get(symbols, calls[k].name).definition # <<>>
          /\ (\A e \in 1 .. (k - 1) :
                ~(calls[e].op = "addSymbol" /\ calls[e].name = calls[k].name)) =>
               /\ Get(symbols, calls[k].name).definition[1].range = calls[k].range
               /\ Get(symbols, calls[k].name).type = SymbolType.Token)

\* a pass has ended in which precedence declarations have listed a character
\* literal without an earlier definition and a name that a %token
\* declaration had defined before
C29_Witness ==
  /\ pc = "done"
  /\ \E k \in PrecedenceCalls :
       /\ IsCharacterLiteral(calls[k].name)
       /\ \A e \in 1 .. (k - 1) : calls[e].name # calls[k].name
  /\ \E k \in PrecedenceCalls :
       \E e \in 1 .. (k - 1) :
         /\ calls[e].op = "addSymbol" /\ calls[e].name = calls[k].name
         /\ e \notin PrecedenceCalls

RuleBodies == {"parseRuleBody", "parseParameterizedRuleBody"}

\* token i (from 1) is there and is an identifier or a character literal
IsPrecedenceSpecifier(i) ==
  i <= Len(tokens) /\ tokens[i].type \in {"IDENTIFIER", "CHARACTER"}

\* C30: the step of a rule body at %prec, when an identifier or character
\* literal follows, consumes both tokens and records one reference to that
\* name at that token's range and nothing else; when anything else follows
\* it consumes %prec only and records nothing, and the body goes on at the
\* following token.
C30_PrecTakesOneSymbol ==
  [][ (/\ pc \in RuleBodies
       /\ tokens[currentTokenIndex + 1].type = "DIRECTIVE"
       /\ tokens[currentTokenIndex + 1].value = D_prec) =>
        LET n == currentTokenIndex + 2
            name == tokens[n].value
            before == IF Has(symbols, name) THEN Get(symbols, name).references
                      ELSE <<>>
        IN /\ parameterizedRules' = parameterizedRules
           /\ IF IsPrecedenceSpecifier(n)
              THEN /\ currentTokenIndex' = currentTokenIndex + 2
                   /\ Len(calls') = Len(calls) + 1
                   /\ SubSeq(calls', 1, Len(calls)) = calls
                   /\ calls'[Len(calls')].op = "addReference"
                   /\ calls'[Len(calls')].name = name
                   /\ calls'[Len(calls')].range = CreateRange(tokens[n])
                   /\ Get(symbols', name).references =
                        Append(before, [range |-> CreateRange(tokens[n])])
                   /\ \A i \in 1 .. Len(symbols) :
                        symbols[i].name # name => symbols'[i] = symbols[i]
              ELSE /\ currentTokenIndex' = currentTokenIndex + 1
                   /\ calls' = calls
                   /\ symbols' = symbols
                   /\ n <= Len(tokens) => pc' = pc
    ]_vars

\* a rule body has taken a symbol after one %prec and has just passed a
\* %prec that no identifier or character literal follows
C30_Witness ==
  /\ pc \in RuleBodies
  /\ currentTokenIndex >= 1
  /\ tokens[currentTokenIndex].type = "DIRECTIVE"
  /\ tokens[currentTokenIndex].value = D_prec
  /\ ~IsPrecedenceSpecifier(currentTokenIndex + 1)
  /\ \E i \in 1 .. (currentTokenIndex - 1) :
       /\ tokens[i].type = "DIRECTIVE" /\ tokens[i].value = D_prec
       /\ IsPrecedenceSpecifier(i + 1)
       /\ \E k \in BodyCallsAt(i + 1) : calls[k].op = "addReference"

\* C23: no step changes what is stored or was published for a document
\* other than the one whose change is being handled; between two changes,
\* a document that has not changed has nothing stored, the document changed
\* last has the table and the diagnostics of the pass over its latest text,
\* two documents with the same latest text have the same table and the
\* same diagnostics whatever they held before, and the diagnostics
\* published for a document are those of its stored table.
C23_StoreReplaced ==
  /\ [][ \A u \in Uris :
           (symbolTables'[u] # symbolTables[u] \/ sent'[u] # sent[u]) =>
             uri = << u >>
     ]_vars
  /\ [](pc = "idle" =>
          /\ \A u \in Uris :
               IF changes[u] = <<>>
               THEN symbolTables[u] = <<>> /\ sent[u] = <<>>
               ELSE /\ symbolTables[u] # <<>> /\ sent[u] # <<>>
                    /\ sent[u][1] = Validate(symbolTables[u][1].symbols,
                                             symbolTables[u][1].parameterizedRules)
          /\ \A u \in Uris :
               uri = << u >> =>
                 /\ text = changes[u][1]
                 /\ symbolTables[u] = << Table >>
                 /\ sent[u] = << diagnostics >>
          /\ \A u, v \in Uris :
               (changes[u] # <<>> /\ changes[v] # <<>>
                  /\ changes[u][1] = changes[v][1]) =>
                 symbolTables[u] = symbolTables[v] /\ sent[u] = sent[v])

\* between two changes: one document has changed once, the other has just
\* changed from another text to the text of the first, and the text has
\* symbols and diagnostics
C23_Witness ==
  /\ pc = "idle"
  /\ \E u, v \in Uris :
       /\ u # v
       /\ Len(changes[u]) = 1 /\ Len(changes[v]) = 2
       /\ changes[v][1] = changes[u][1] /\ changes[v][2] # changes[v][1]
       /\ uri = << v >>
       /\ symbolTables[v] # <<>>
       /\ Len(symbolTables[v][1].symbols) > 0
       /\ Len(sent[v][1]) > 0

\* the loops that skip a brace block
BraceLoops == {"skipCodeBlock", "parseUnionDeclaration.block"}

\* opening minus closing braces among the tokens o .. k (from 1)
Balance(o, k) ==
  Cardinality({ j \in o .. k : IsParen(j, "{") })
    - Cardinality({ j \in o .. k : IsParen(j, "}") })

\* the tokens o .. c - 1 are the read part of a block that token o opens,
\* `depth` braces deep at its end
InsideBlock(o, c, depth) ==
  /\ IsParen(o, "{")
  /\ \A k \in o .. (c - 1) : Balance(o, k) >= 1
  /\ Balance(o, c - 1) = depth

\* C31: a rule body that meets an opening brace enters the block at depth
\* 1; in a block every token moves the cursor by one and the depth by the
\* brace it is, so the depth is the nesting depth since the opening brace;
\* no step inside a block touches the symbol table; the block is left
\* exactly at the closing brace that brings the depth back to 0, and
\* parsing goes on at the token after it (after the type tag that follows
\* an action block).
C31_BraceBlocksOpaque ==
  /\ [](pc \in BraceLoops =>
          IF frame.depth = 0
          THEN IsParen(currentTokenIndex + 1, "{")
          ELSE \E o \in 1 .. currentTokenIndex :
                 InsideBlock(o, currentTokenIndex + 1, frame.depth))
  /\ [][ (pc \in RuleBodies /\ IsParen(currentTokenIndex + 1, "{")) =>
           /\ symbols' = symbols
           /\ parameterizedRules' = parameterizedRules
           /\ calls' = calls
           /\ currentTokenIndex' = currentTokenIndex + 1
           /\ currentTokenIndex' < Len(tokens) =>
                pc' = "skipCodeBlock" /\ frame'.depth = 1
     ]_vars
  /\ [][ (pc \in BraceLoops) =>
           LET c == currentTokenIndex + 1
               closes == frame.depth = 1 /\ IsParen(c, "}")
               tagged == /\ frame.body # ""
                         /\ c < Len(tokens) /\ tokens[c + 1].type = "TYPE_TAG"
           IN /\ symbols' = symbols
              /\ parameterizedRules' = parameterizedRules
              /\ calls' = calls
              /\ IF closes
                 THEN /\ currentTokenIndex' = IF tagged THEN c + 1 ELSE c
                      /\ pc' \notin BraceLoops
                      /\ currentTokenIndex' < Len(tokens) =>
                           pc' = IF frame.body = "" THEN "parseGrammar"
                                 ELSE frame.body
                 ELSE /\ currentTokenIndex' = c
                      /\ currentTokenIndex' < Len(tokens) =>
                           /\ pc' = pc
                           /\ frame'.depth =
                                IF IsParen(c, "{") THEN frame.depth + 1
                                ELSE IF IsParen(c, "}") THEN frame.depth - 1
                                ELSE frame.depth
     ]_vars

\* a rule body goes on after an action block that holds names and a nested
\* block
C31_Witness ==
  /\ pc \in RuleBodies
  /\ \E o \in 1 .. currentTokenIndex, c \in 1 .. currentTokenIndex :
       /\ c \in { currentTokenIndex, currentTokenIndex - 1 }
       /\ IsParen(c, "}")
       /\ InsideBlock(o, c, 1)
       /\ \E j \in (o + 1) .. (c - 1) : Balance(o, j) = 2
       /\ \E j \in (o + 1) .. (c - 1) : tokens[j].type = "IDENTIFIER"
       /\ tokens[o - 1].type = "SPECIAL" /\ tokens[o - 1].value = << ":" >>

\* opening minus closing parentheses among the tokens o .. k (from 1)
ParenBalance(o, k) ==
  Cardinality({ j \in o .. k : IsParen(j, "(") })
    - Cardinality({ j \in o .. k : IsParen(j, ")") })

\* the construct that the loop at pc is reading has no close among the
\* tokens that are left
Unclosed ==
  LET c == currentTokenIndex + 1
      rest == c .. Len(tokens)
  IN CASE pc \in BraceLoops ->
            \A k \in rest : frame.depth + Balance(c, k) >= 1
       [] pc \in {"parseArgumentList", "parseArgumentListWithContext"} ->
            \A k \in rest : frame.depth + ParenBalance(c, k) >= 1
       [] pc = "parseParameterizedRuleDeclaration" ->
            \A k \in rest : ~IsParen(k, ")")
       [] pc = "skipNamedReference" ->
            \A k \in rest : ~IsParen(k, "]")
       [] OTHER -> FALSE

\* parseRule is at a name whose alias bracket has no close
UnclosedRuleAlias ==
  LET c == currentTokenIndex + 1
  IN /\ pc = "parseGrammar" /\ section = "rules"
     /\ tokens[c].type = "IDENTIFIER"
     /\ c < Len(tokens) /\ IsParen(c + 1, "[")
     /\ \A k \in (c + 2) .. Len(tokens) : ~IsParen(k, "]")

\* C32: a construct whose opening has no matching close keeps the cursor
\* until the end of the tokens: the loop that reads it is not left before,
\* and the rule-name alias of parseRule takes the cursor to the end.
C32_UnmatchedConsumesRest ==
  [][ /\ Unclosed => (currentTokenIndex' < Len(tokens) => pc' = pc)
      /\ UnclosedRuleAlias => currentTokenIndex' = Len(tokens)
    ]_vars

\* the step has made exactly one SymbolTable call, the call `op`
Called(op) ==
  /\ Len(calls') = Len(calls) + 1
  /\ calls'[Len(calls')].op = op

\* C33: a call on a base name without a parameterized entity appends a
\* placeholder without definition that holds that call; a definition of a
\* base name that has an entity attaches its range and parameters to that
\* entity, at its place in the map, and keeps the calls recorded on it.
C33_ForwardCallsKept ==
  [][ LET call == calls'[Len(calls')]
          name == call.name
          i == IndexOfName(parameterizedRules, name)
      IN /\ (Called("addParameterizedCall") /\ i = 0) =>
              /\ Len(parameterizedRules') = Len(parameterizedRules) + 1
              /\ SubSeq(parameterizedRules', 1, Len(parameterizedRules)) =
                   parameterizedRules
              /\ LET new == parameterizedRules'[Len(parameterizedRules')]
                 IN /\ new.name = name
                    /\ new.definition = <<>>
                    /\ Len(new.parameterizedCalls) = 1
                    /\ new.parameterizedCalls[1].range = call.range
         /\ (Called("addParameterizedRuleDefinition") /\ i # 0) =>
              /\ Len(parameterizedRules') = Len(parameterizedRules)
              /\ parameterizedRules'[i].name = name
              /\ parameterizedRules'[i].definition # <<>>
              /\ parameterizedRules'[i].definition[1].range = call.range
              /\ parameterizedRules'[i].parameters = << call.scope >>
              /\ parameterizedRules'[i].parameterizedCalls =
                   parameterizedRules[i].parameterizedCalls
    ]_vars

\* a pass has ended with a parameterized rule that was called twice before
\* its definition and holds both calls and the definition
C33_Witness ==
  /\ pc = "done"
  /\ \E i \in 1 .. Len(parameterizedRules) :
       LET name == parameterizedRules[i].name
           defs == CallsOn("addParameterizedRuleDefinition", name)
           before == { k \in CallsOn("addParameterizedCall", name) :
                         \A d \in defs : k < d }
       IN /\ defs # {}
          /\ Cardinality(before) >= 2
          /\ parameterizedRules[i].definition # <<>>
          /\ Len(parameterizedRules[i].parameterizedCalls) >= 2

\* the ranges of the list start at strictly increasing positions
Increasing(list) ==
  \A i, j \in 1 .. Len(list) :
    i < j => Before(list[i].range.start, list[j].range.start)

\* C34: in every state, in both namespaces, the references of an entity and
\* its parameterized calls are in strictly increasing order of position.
C34_ListsInSourceOrder ==
  /\ \A i \in 1 .. Len(symbols) :
       Increasing(symbols[i].references)
         /\ Increasing(symbols[i].parameterizedCalls)
  /\ \A i \in 1 .. Len(parameterizedRules) :
       Increasing(parameterizedRules[i].references)
         /\ Increasing(parameterizedRules[i].parameterizedCalls)

\* a pass has ended with a name referenced three times, on more than one
\* line, and a parameterized rule called twice
C34_Witness ==
  /\ pc = "done"
  /\ \E i \in 1 .. Len(symbols) :
       /\ Len(symbols[i].references) >= 3
       /\ symbols[i].references[1].range.start.line
            < symbols[i].references[3].range.start.line
  /\ \E i \in 1 .. Len(parameterizedRules) :
       Len(parameterizedRules[i].parameterizedCalls) >= 2

\* the kinds that the declarations %token, %type, %nterm and %start give
DeclarationKinds ==
  { SymbolType.Token, SymbolType.Type, SymbolType.Nonterminal, SymbolType.Start }

\* the names whose first addSymbol call is a declaration's and that a later
\* call defines as a rule, each with the position of that first call
DeclaredThenRule ==
  { k \in 1 .. Len(calls) :
      /\ calls[k].op = "addSymbol" /\ calls[k].type \in DeclarationKinds
      /\ \A e \in 1 .. (k - 1) :
           ~(calls[e].name = calls[k].name /\ calls[e].op = "addSymbol")
      /\ \E e \in (k + 1) .. Len(calls) :
           /\ calls[e].name = calls[k].name /\ calls[e].op = "addSymbol"
           /\ calls[e].type = SymbolType.Rule }

\* C35: the kind of an entity changes only in a step that gives a
\* definition to an entity without one, and a plain definition once set
\* stays; so a name that a declaration defines first and a rule defines
\* later keeps the declaration's kind and range and gets no unused-rule
\* diagnostic.
C35_FirstDefinitionKeepsKind ==
  /\ [][ (pc # "done") =>
           /\ \A i \in 1 .. Len(symbols) :
                /\ symbols'[i].type # symbols[i].type =>
                     symbols[i].definition = <<>> /\ symbols'[i].definition # <<>>
                /\ symbols[i].definition # <<>> =>
                     symbols'[i].definition = symbols[i].definition
           /\ \A i \in 1 .. Len(parameterizedRules) :
                parameterizedRules'[i].type # parameterizedRules[i].type =>
                  /\ parameterizedRules[i].definition = <<>>
                  /\ parameterizedRules'[i].definition # <<>>
     ]_vars
  /\ [](\A k \in DeclaredThenRule :
          LET symbol == Get(symbols, calls[k].name)
          IN /\ symbol.type = calls[k].type
             /\ symbol.definition # <<>>
             /\ symbol.definition[1].range = calls[k].range
             /\ \A d \in 1 .. Len(diagnostics) :
                  diagnostics[d].message #
                    << "Rule '", symbol.name, "' is defined but never used" >>)

\* a pass has ended with a name that %token has declared, a rule has defined
\* later and nothing references
C35_Witness ==
  /\ pc = "done"
  /\ section = "rules"
  /\ \E k \in DeclaredThenRule :
       /\ calls[k].type = SymbolType.Token
       /\ Get(symbols, calls[k].name).references = <<>>
       /\ Get(symbols, calls[k].name).parameterizedCalls = <<>>

\* C36: in every state an entity of the parameterized namespace has the
\* kind parameterized rule and no ordinary reference, and validateSymbols
\* has no diagnostic for it; after the pass the diagnostics are those of
\* the plain entities alone.
C36_ParameterizedNeverDiagnosed ==
  LET all == GetAllSymbols(symbols, parameterizedRules)
      knownParameters == KnownParameters(all)
  IN /\ \A i \in 1 .. Len(parameterizedRules) :
          /\ parameterizedRules[i].type = SymbolType.ParameterizedRule
          /\ parameterizedRules[i].references = <<>>
          /\ all[i] = parameterizedRules[i]
          /\ ValidateFrom(<< all[i] >>, knownParameters, 1) = <<>>
     /\ pc = "done" =>
          diagnostics = ValidateFrom(all, knownParameters,
                                     Len(parameterizedRules) + 1)

\* a pass has ended with a parameterized rule that is called and never
\* defined, one that is defined and never called, and a diagnostic
C36_Witness ==
  /\ pc = "done"
  /\ diagnostics # <<>>
  /\ \E i \in 1 .. Len(parameterizedRules) :
       /\ parameterizedRules[i].definition = <<>>
       /\ parameterizedRules[i].parameterizedCalls # <<>>
  /\ \E i \in 1 .. Len(parameterizedRules) :
       /\ parameterizedRules[i].definition # <<>>
       /\ parameterizedRules[i].parameterizedCalls = <<>>

\* token i (from 1) is a suffix operator
IsSuffixOperator(i) ==
  /\ i <= Len(tokens) /\ tokens[i].type = "SPECIAL"
  /\ tokens[i].value \in { << "?" >>, << "*" >>, << "+" >> }

\* C37: the step of a rule body at a character literal leaves both maps and
\* the call history unchanged and moves the cursor past the literal and
\* past the suffix operator that directly follows it, if there is one.
C37_BodyLiteralLeavesTable ==
  [][ (pc \in RuleBodies /\ tokens[currentTokenIndex + 1].type = "CHARACTER") =>
        /\ symbols' = symbols
        /\ parameterizedRules' = parameterizedRules
        /\ calls' = calls
        /\ currentTokenIndex' =
             IF IsSuffixOperator(currentTokenIndex + 2)
             THEN currentTokenIndex + 2 ELSE currentTokenIndex + 1
    ]_vars

\* a pass has ended in which a precedence declaration has defined a
\* character literal and a rule body has it with and without a suffix
\* operator, and the literal has no reference
C37_Witness ==
  /\ pc = "done"
  /\ \E k \in PrecedenceCalls :
       /\ IsCharacterLiteral(calls[k].name)
       /\ Get(symbols, calls[k].name).references = <<>>
       /\ \E j \in 2 .. (Len(tokens) - 2) :
            /\ tokens[j].type = "CHARACTER" /\ tokens[j].value = calls[k].name
            /\ IsParen(j - 1, ":")
            /\ IsSuffixOperator(j + 1)
            /\ tokens[j + 2].type = "CHARACTER"
            /\ \E r \in 1 .. Len(calls) :
                 /\ calls[r].op = "addSymbol" /\ calls[r].type = SymbolType.Rule
                 /\ calls[r].range = CreateRange(tokens[j - 2])

\* the map `after` differs from `before` at most in the entity named
\* `name`, which is at its old place or, when new, appended
OnlyEntityChanged(before, after, name) ==
  /\ Len(after) = IF Has(before, name) THEN Len(before) ELSE Len(before) + 1
  /\ \A i \in 1 .. Len(before) :
       before[i].name # name => after[i] = before[i]
  /\ after[IF Has(before, name) THEN IndexOfName(before, name)
           ELSE Len(after)].name = name

\* C38: a step of the pass makes at most one SymbolTable call; a step that
\* makes none changes no map; addSymbol and addReference on a name change
\* at most the plain entity of that name, addParameterizedRuleDefinition
\* and addParameterizedCall at most the parameterized entity of that name,
\* every other entity of both maps is unchanged, and addReference leaves
\* the definition and the kind of an entity that exists as they are.
C38_OperationFrame ==
  [][ (pc # "done") =>
        /\ Len(calls') \in { Len(calls), Len(calls) + 1 }
        /\ Len(calls') = Len(calls) =>
             symbols' = symbols /\ parameterizedRules' = parameterizedRules
        /\ Len(calls') = Len(calls) + 1 =>
             LET call == calls'[Len(calls')]
                 i == IndexOfName(symbols, call.name)
             IN IF call.op \in {"addSymbol", "addReference"}
                THEN /\ parameterizedRules' = parameterizedRules
                     /\ OnlyEntityChanged(symbols, symbols', call.name)
                     /\ (call.op = "addReference" /\ i # 0) =>
                          /\ symbols'[i].definition = symbols[i].definition
                          /\ symbols'[i].type = symbols[i].type
                ELSE /\ symbols' = symbols
                     /\ OnlyEntityChanged(parameterizedRules,
                                          parameterizedRules', call.name)
    ]_vars

\* a pass has ended that has made the four calls, on a name that is in both
\* maps among other entities
C38_Witness ==
  /\ pc = "done"
  /\ \E name \in NamesCalled :
       /\ \A op \in {"addSymbol", "addReference", "addParameterizedCall",
                     "addParameterizedRuleDefinition"} : CallsOn(op, name) # {}
       /\ Has(symbols, name) /\ Has(parameterizedRules, name)
  /\ Len(symbols) >= 2

\* the locations of the ranges of the list, in order
LocationsOf(u, list) == [k \in 1 .. Len(list) |-> Location(u, list[k].range)]

====
